---- MODULE Spec2Model ----
(***************************************************************************)
(* Uruflow: the deployment orchestrator (DeploymentService), the           *)
(* repository state manager (RepositoryService) and the webhook ingestion  *)
(* pipeline (WebhookHandler), as a state machine.                          *)
(*                                                                         *)
(* Strings are sequences of tokens: "refs/heads/main" is                   *)
(* <<"refs", "/", "heads", "/", "main">>, so that prefix tests, trimming,  *)
(* concatenation and substring search are computed, not assumed.           *)
(***************************************************************************)
EXTENDS Naturals, Sequences, FiniteSets, TLC

(* ------------------------------ bounds -------------------------------- *)

\* webhook requests served by the HTTP server (one handler goroutine each)
NumWeb == 1
\* further callers of the exported DeployDirect sharing the same service
NumCli == 1
\* the timeout handed to Shutdown, in seconds (the server hands it 25)
ShutdownTimeout == 2
\* the most fragments one output of `up` is put together from
MaxFragments == 2
\* the deadline of executeDeployment's context, in seconds (the program's is
\* 15 minutes), and the longest one TestSSHConnection call takes
DeadlineSeconds == 8
MaxCallSeconds == 3
\* settings.max_concurrent as the configuration file gives it (the README
\* allows 1 to 3)
ConfiguredMax == 1

\* the deadline of a deployment, in periods of the progress ticker
DeadlineTicks == 2

\* the calls each goroutine makes on the DeploymentService
MaxCalls == 1

(* --------------------------- program constants ------------------------ *)

\* testSSHConnection: maxRetries := 3
maxRetries == 3
\* testSSHConnection: baseDelay := time.Second
baseDelay == 1
\* startServices: maxRetries := 3
startMaxRetries == 3

(* ------------------------------ strings ------------------------------- *)

EmptyStr == << >>

\* strings.HasPrefix
HasPrefix(s, prefix) ==
    /\ Len(s) >= Len(prefix)
    /\ SubSeq(s, 1, Len(prefix)) = prefix

\* strings.TrimPrefix
TrimPrefix(s, prefix) ==
    IF HasPrefix(s, prefix) THEN SubSeq(s, Len(prefix) + 1, Len(s)) ELSE s

\* strings.Contains
Contains(s, sub) ==
    \E i \in 1..(Len(s) + 1) :
        /\ i + Len(sub) - 1 <= Len(s)
        /\ SubSeq(s, i, i + Len(sub) - 1) = sub

RefsHeads == <<"refs", "/", "heads", "/">>

(* --------------------------- configuration ---------------------------- *)

WorkDir == <<"/var/uruflow/repositories">>
ComposeName == <<"docker-compose.yml">>
\* the configured webhook secret, and an equal-length near-match of it
TheSecret == <<7, 3>>
OtherSecret == <<7, 4>>

Main == <<"main">>
FeatureX == <<"feature-x">>
DisabledBranch == <<"disabled">>
AppName == <<"app">>
ApiName == <<"api">>
GhostName == <<"ghost">>
\* a repository no configuration holds, whose name has the word disabled in it
DisabledAppName == <<"disabled", "-app">>

\* models.Repository
Repository(name, branches, autoDeploy, enabled) ==
    [ Name        |-> name,
      GitURL      |-> <<"git@", "github.com:acme/">> \o name,
      Branches    |-> branches,
      ComposeFile |-> ComposeName,
      AutoDeploy  |-> autoDeploy,
      Enabled     |-> enabled ]

\* models.Config: the loaded structure the services are constructed with
MkConfig(secret, autoDeploy, enabled, cleanup) ==
    [ Repositories   |-> << Repository(AppName, <<Main>>, autoDeploy, enabled),
                           Repository(ApiName, <<Main>>, TRUE, TRUE) >>,
      WorkDir        |-> WorkDir,
      MaxConcurrent  |-> ConfiguredMax,
      CleanupEnabled |-> cleanup,
      Secret         |-> secret ]

\* the configurations a server is started with
ConfigSpace ==
    { MkConfig(TheSecret, TRUE, TRUE, TRUE),
      MkConfig(EmptyStr, TRUE, TRUE, TRUE),
      MkConfig(TheSecret, FALSE, TRUE, TRUE),
      MkConfig(TheSecret, TRUE, FALSE, FALSE) }

\* config.json as written: the repository app with its auto_deploy and
\* enabled keys and no compose_file key, the repository api with every key
WrittenConfig(autoDeploy, enabled) ==
    [ repositories |->
        << [ name |-> AppName, git_url |-> <<"git@", "github.com:acme/">> \o AppName,
             branches |-> <<Main>>, auto_deploy |-> autoDeploy, enabled |-> enabled ],
           [ name |-> ApiName, git_url |-> <<"git@", "github.com:acme/">> \o ApiName,
             branches |-> <<Main>>, compose_file |-> ComposeName,
             auto_deploy |-> TRUE, enabled |-> TRUE ] >>,
      settings |-> [ work_dir |-> WorkDir, max_concurrent |-> ConfiguredMax,
                     cleanup_enabled |-> TRUE ],
      webhook |-> [ secret |-> TheSecret ] ]

\* the contents config.json is given
FileSpace == { WrittenConfig(autoDeploy, enabled) : autoDeploy \in BOOLEAN, enabled \in BOOLEAN }

\* json.Unmarshal of one key: its value, or the zero value when it is absent
Field(object, key, zero) == IF key \in DOMAIN object THEN object[key] ELSE zero

\* json.Unmarshal(file, &config)
UnmarshalConfig(file) ==
    [ Repositories   |-> [ i \in 1..Len(file.repositories) |->
                             LET r == file.repositories[i]
                             IN  [ Name        |-> Field(r, "name", EmptyStr),
                                   GitURL      |-> Field(r, "git_url", EmptyStr),
                                   Branches    |-> Field(r, "branches", << >>),
                                   ComposeFile |-> Field(r, "compose_file", EmptyStr),
                                   AutoDeploy  |-> Field(r, "auto_deploy", FALSE),
                                   Enabled     |-> Field(r, "enabled", FALSE) ] ],
      WorkDir        |-> Field(file.settings, "work_dir", EmptyStr),
      MaxConcurrent  |-> Field(file.settings, "max_concurrent", 0),
      CleanupEnabled |-> Field(file.settings, "cleanup_enabled", FALSE),
      Secret         |-> Field(file.webhook, "secret", EmptyStr) ]

\* config.setDefaults
setDefaults(c) ==
    [ c EXCEPT
        !.WorkDir = IF @ = EmptyStr THEN <<"./repository">> ELSE @,
        !.MaxConcurrent = IF @ = 0 THEN 3 ELSE @,
        !.Repositories = [ i \in 1..Len(c.Repositories) |->
            [ c.Repositories[i] EXCEPT
                !.ComposeFile = IF @ = EmptyStr THEN ComposeName ELSE @,
                !.AutoDeploy = TRUE,
                !.Enabled = TRUE ] ] ]

\* config.Load, the file read and decoded without error
Load(file) == setDefaults(UnmarshalConfig(file))

NoRepo == [ Name |-> EmptyStr, GitURL |-> EmptyStr, Branches |-> << >>,
            ComposeFile |-> EmptyStr, AutoDeploy |-> FALSE, Enabled |-> FALSE ]

(* ---------------------------- file system ----------------------------- *)

\* filepath.Join(workDir, repoName, branch)
RepoPath(workDir, repoName, branch) ==
    workDir \o <<"/">> \o repoName \o <<"/">> \o branch

\* a work_dir the configuration file is changed to while the server runs
MovedWorkDir == <<"/srv/uruflow">>

Paths ==
    { RepoPath(WorkDir, n, Main) : n \in {AppName, ApiName} }
        \cup { RepoPath(MovedWorkDir, AppName, Main) }

\* a working copy: the directory, its .git directory, its compose file
Absent == [ dir |-> FALSE, git |-> FALSE, compose |-> "none" ]
Cloned(compose) == [ dir |-> TRUE, git |-> TRUE, compose |-> compose ]
ComposeStates == {"none", "empty", "ok"}

(* ----------------------- RepositoryService ---------------------------- *)

\* RepositoryService.GetRepository: the first repository with that name
\* that is enabled, or nil (NoRepo)
GetRepository(c, name) ==
    LET hits == { i \in 1..Len(c.Repositories) :
                    /\ c.Repositories[i].Name = name
                    /\ c.Repositories[i].Enabled }
    IN  IF hits = {} THEN NoRepo
        ELSE c.Repositories[CHOOSE i \in hits : \A j \in hits : i <= j]

\* RepositoryService.IsBranchConfigured
IsBranchConfigured(repo, branch) ==
    \E i \in 1..Len(repo.Branches) : repo.Branches[i] = branch

\* RepositoryService.getRepositoryPath
getRepositoryPath(c, repoName, branch) == RepoPath(c.WorkDir, repoName, branch)

\* os.Stat of a working copy the model does not hold: it does not exist
StatPath(files, path) == IF path \in DOMAIN files THEN files[path] ELSE Absent

\* an IsRepositoryInitialized that never finds the working copy
NeverInitialized(c, files, repoName, branch) == FALSE

\* an IsRepositoryInitialized that does not look at the compose file's size
InitializedIgnoringSize(c, files, repoName, branch) ==
    LET repo == GetRepository(c, repoName)
        w    == StatPath(files, getRepositoryPath(c, repoName, branch))
    IN  /\ repo # NoRepo
        /\ IsBranchConfigured(repo, branch)
        /\ w.dir
        /\ w.git
        /\ w.compose # "none"

\* RepositoryService.IsRepositoryInitialized
IsRepositoryInitialized(c, files, repoName, branch) ==
    LET repo == GetRepository(c, repoName)
        w    == StatPath(files, getRepositoryPath(c, repoName, branch))
    IN  /\ repo # NoRepo
        /\ IsBranchConfigured(repo, branch)
        /\ w.dir
        /\ w.git
        /\ w.compose # "none"
        /\ w.compose # "empty"

\* RepositoryService.ValidateRepository
ValidateRepository(repo) ==
    /\ repo.Name # EmptyStr
    /\ repo.GitURL # EmptyStr
    /\ Len(repo.Branches) # 0
    /\ \/ HasPrefix(repo.GitURL, <<"http">>)
       \/ HasPrefix(repo.GitURL, <<"git@">>)
    /\ repo.ComposeFile # EmptyStr

\* RepositoryService.verifyDockerCompose
verifyDockerCompose(w) == w.compose = "ok"

(* ------------------------- webhook signatures ------------------------- *)

\* Bytes are numbers 1..14.  The MAC is idealised: a keyed function of the
\* algorithm, the key and the message that is injective on the model's
\* inputs (no collisions), computed byte by byte.
AlgSalt(alg) == IF alg = "sha256" THEN 1 ELSE 2

\* hmac.New(alg, secret); mac.Write(body); mac.Sum(nil)
Hmac(alg, secret, body) ==
    LET x == secret \o <<0>> \o body
    IN  [ i \in 1..Len(x) |-> (x[i] + AlgSalt(alg)) % 16 ]

HexDigits == <<"0", "1", "2", "3", "4", "5", "6", "7",
               "8", "9", "a", "b", "c", "d", "e", "f">>

\* hex.EncodeToString
Hex(d) == [ i \in 1..Len(d) |-> HexDigits[d[i] + 1] ]

\* what a sender puts in X-Hub-Signature-256 / X-Hub-Signature
Sign(alg, key, body) == <<alg, "=">> \o Hex(Hmac(alg, key, body))

\* WebhookHandler.validateGitHubSignature: "" (nil) or the error
validateGitHubSignature(signature, body, secret) ==
    IF HasPrefix(signature, <<"sha256", "=">>)
    THEN IF signature = <<"sha256", "=">> \o Hex(Hmac("sha256", secret, body))
         THEN "" ELSE "invalid webhook signature"
    ELSE IF HasPrefix(signature, <<"sha1", "=">>)
    THEN IF signature = <<"sha1", "=">> \o Hex(Hmac("sha1", secret, body))
         THEN "" ELSE "invalid webhook signature"
    ELSE "invalid signature format"

\* a token comparison that looks at the length only
validateGitLabLength(signature, secret) ==
    IF Len(signature) # Len(secret) THEN "invalid webhook token" ELSE ""

\* WebhookHandler.validateGitLabSignature
validateGitLabSignature(signature, secret) ==
    IF signature # secret THEN "invalid webhook token" ELSE ""

\* a validateWebhookSecret that lets a request without signature headers through
validateWebhookSecretLenient(secretKey, r) ==
    LET githubSignature == IF r.hub256 = EmptyStr THEN r.hub ELSE r.hub256
    IN  IF secretKey = EmptyStr THEN ""
        ELSE IF githubSignature # EmptyStr
        THEN validateGitHubSignature(githubSignature, r.body, secretKey)
        ELSE IF r.gitlab # EmptyStr
        THEN IF r.gitlab # secretKey THEN "invalid webhook token" ELSE ""
        ELSE ""

\* WebhookHandler.validateWebhookSecret
validateWebhookSecret(secretKey, r) ==
    LET githubSignature == IF r.hub256 = EmptyStr THEN r.hub ELSE r.hub256
    IN  IF secretKey = EmptyStr THEN ""
        ELSE IF githubSignature # EmptyStr
        THEN validateGitHubSignature(githubSignature, r.body, secretKey)
        ELSE IF r.gitlab # EmptyStr
        THEN validateGitLabSignature(r.gitlab, secretKey)
        ELSE "missing webhook signature"

(* --------------------------- webhook payloads ------------------------- *)

Commit == <<"4f2a9c1d">>

Webhook(name, ref, commit) == [ ok |-> TRUE, Name |-> name, Ref |-> ref, HeadCommit |-> commit ]
BadJSON == [ ok |-> FALSE, Name |-> EmptyStr, Ref |-> EmptyStr, HeadCommit |-> EmptyStr ]

Ref(branch) == RefsHeads \o branch

\* a GitLab push event: the keys of models.GitLabWebhook the sender fills;
\* there is no head_commit object
GitLabPush(name, ref) ==
    [ object_kind  |-> "push",
      ref          |-> ref,
      checkout_sha |-> Commit,
      repository   |-> [ name |-> name ],
      commits      |-> << [ id |-> Commit ] >> ]

\* json.Unmarshal of a JSON object into models.GitHubWebhook: the keys ref,
\* repository.name and head_commit.id, the zero value for a key that is absent
UnmarshalObject(object) ==
    Webhook(Field(Field(object, "repository", << >>), "name", EmptyStr),
            Field(object, "ref", EmptyStr),
            Field(Field(object, "head_commit", << >>), "id", EmptyStr))

\* json.Unmarshal into models.GitHubWebhook, on the bodies the model sends
Unmarshal(body) ==
    CASE body = <<2>>  -> Webhook(EmptyStr, Ref(Main), Commit)
      [] body = <<3>>  -> Webhook(AppName, EmptyStr, Commit)
      [] body = <<4>>  -> Webhook(AppName, <<"refs", "/", "tags", "/", "v1">>, Commit)
      [] body = <<5>>  -> Webhook(AppName, Ref(Main), EmptyStr)
      [] body = <<6>>  -> Webhook(AppName, Ref(Main), Commit)
      [] body = <<7>>  -> Webhook(AppName, Ref(FeatureX), Commit)
      [] body = <<8>>  -> Webhook(ApiName, Ref(Main), Commit)
      [] body = <<9>>  -> Webhook(GhostName, Ref(Main), Commit)
      [] body = <<10>> -> Webhook(AppName, Ref(DisabledBranch), Commit)
      [] body = <<15>> -> Webhook(DisabledAppName, Ref(Main), Commit)
      [] body = <<11>> -> UnmarshalObject(GitLabPush(AppName, Ref(Main)))
      [] body = <<12>> -> UnmarshalObject(GitLabPush(ApiName, Ref(Main)))
      [] body = <<13>> -> UnmarshalObject(GitLabPush(AppName, <<"refs", "/", "tags", "/", "v1">>))
      [] body = <<14>> -> UnmarshalObject(GitLabPush(GhostName, Ref(Main)))
      [] OTHER -> BadJSON

BodySpace == { << >>, <<1>>, <<2>>, <<3>>, <<4>>, <<5>>, <<6>>, <<7>>, <<8>>, <<9>>, <<10>>, <<15>> }

\* a readRequestBody without the empty-body test
readRequestBodyAny(r) ==
    IF ~r.readOk THEN "failed to read request body" ELSE ""

\* WebhookHandler.readRequestBody: "" (nil) or the error
readRequestBody(r) ==
    IF ~r.readOk THEN "failed to read request body"
    ELSE IF Len(r.body) = 0 THEN "empty request body"
    ELSE ""

\* WebhookHandler.parseWebhook: "" (nil) or the error
parseWebhook(body) ==
    LET webhook == Unmarshal(body)
    IN  IF ~webhook.ok THEN "invalid JSON format"
        ELSE IF webhook.Name = EmptyStr THEN "missing repository name"
        ELSE IF webhook.Ref = EmptyStr THEN "missing ref"
        ELSE ""

\* a validateWebhook without the head-commit test
validateWebhookRefOnly(webhook) ==
    IF ~HasPrefix(webhook.Ref, <<"refs", "/", "heads", "/">>)
    THEN <<"non-branch ref: ">> \o webhook.Ref
    ELSE << >>

\* WebhookHandler.validateWebhook: the error message, EmptyStr for nil
validateWebhook(webhook) ==
    IF ~HasPrefix(webhook.Ref, RefsHeads)
    THEN <<"non-branch ref: ">> \o webhook.Ref
    ELSE IF webhook.HeadCommit = EmptyStr
    THEN <<"no commits in push">>
    ELSE EmptyStr

\* WebhookHandler.validateRepository: the repository and the error message
validateRepository(c, repoName, branch) ==
    LET repo == GetRepository(c, repoName)
    IN  IF repo = NoRepo
        THEN [ repo |-> NoRepo,
               err  |-> <<"repository '">> \o repoName \o <<"' not configured">> ]
        ELSE IF ~repo.AutoDeploy
        THEN [ repo |-> NoRepo,
               err  |-> <<"auto-deploy ", "disabled", " for repository ">> \o repo.Name ]
        ELSE IF ~IsBranchConfigured(repo, branch)
        THEN [ repo |-> NoRepo,
               err  |-> <<"branch '">> \o branch \o <<"' not configured for deployment">> ]
        ELSE [ repo |-> repo, err |-> EmptyStr ]

\* a response that treats every validateRepository error as a configuration error
AlwaysConfigurationError(err) ==
    [ code |-> 404, status |-> "failed", error |-> "Configuration error" ]

\* HandleWebhook, the response to a validateRepository error
RepositoryErrorResponse(err) ==
    IF Contains(err, <<"disabled">>)
    THEN [ code |-> 200, status |-> "disabled", error |-> "" ]
    ELSE [ code |-> 404, status |-> "failed", error |-> "Configuration error" ]

\* a job key that leaves the repository out
JobKeyBranchOnly(repoName, branch) == <<":">> \o branch

\* DeploymentService.DeployDirect: jobKey := fmt.Sprintf("%s:%s", repo.Name, branch)
JobKey(repoName, branch) == repoName \o <<":">> \o branch

(* ------------------------------ requests ------------------------------ *)

Headers(hub256, hub, gitlab) == [ hub256 |-> hub256, hub |-> hub, gitlab |-> gitlab ]

\* the signature headers a sender attaches to a body
HeaderSpace(body) ==
    { Headers(EmptyStr, EmptyStr, EmptyStr),
      Headers(Sign("sha256", TheSecret, body), EmptyStr, EmptyStr),
      Headers(Sign("sha256", OtherSecret, body), EmptyStr, EmptyStr),
      Headers(EmptyStr, Sign("sha1", TheSecret, body), EmptyStr),
      Headers(EmptyStr, EmptyStr, TheSecret),
      Headers(EmptyStr, EmptyStr, OtherSecret),
      \* signed over another body; an unknown algorithm prefix; a bad GitHub
      \* signature next to the right GitLab token
      Headers(Sign("sha256", TheSecret, body \o <<1>>), EmptyStr, EmptyStr),
      Headers(<<"md5", "=">> \o Hex(Hmac("sha1", TheSecret, body)), EmptyStr, EmptyStr),
      Headers(EmptyStr, Sign("sha1", OtherSecret, body), TheSecret) }

Request(method, readOk, body, h) ==
    [ method |-> method, readOk |-> readOk, body |-> body,
      hub256 |-> h.hub256, hub |-> h.hub, gitlab |-> h.gitlab ]

NoHeaders == Headers(EmptyStr, EmptyStr, EmptyStr)

\* the requests a client sends to the webhook endpoint
RequestSpace ==
    { Request("GET", TRUE, <<6>>, NoHeaders), Request("POST", FALSE, <<6>>, NoHeaders) }
    \cup { Request("POST", TRUE, <<6>>, h) : h \in HeaderSpace(<<6>>) }
    \cup { Request("POST", TRUE, b, NoHeaders) : b \in BodySpace }
    \cup { Request("POST", TRUE, b, Headers(Sign("sha256", TheSecret, b), EmptyStr, EmptyStr)) :
             b \in BodySpace }

\* the push events a GitLab server sends, with the configured token or another
GitLabRequestSpace ==
    { Request("POST", TRUE, b, Headers(EmptyStr, EmptyStr, token)) :
        b \in { <<11>>, <<12>>, <<13>>, <<14>> }, token \in { TheSecret, OtherSecret } }

NoRequest == Request("", FALSE, << >>, NoHeaders)

\* what the handler has read and reads never again
HeadersRead == Headers(<<"-">>, <<"-">>, <<0>>)
BodyRead == <<0>>

(* ------------------------------- state -------------------------------- *)

WebProcs == 1..NumWeb
CliProcs == (NumWeb + 1)..(NumWeb + NumCli)
Procs == WebProcs \cup CliProcs
NoProc == 0

NoResp == [ code |-> 0, status |-> "", error |-> "" ]
Resp(code, status, error) == [ code |-> code, status |-> status, error |-> error ]

\* a request handler (or caller) that has not started
IdleProc ==
    [ pc         |-> "idle",
      req        |-> NoRequest,
      webhook    |-> BadJSON,
      branch     |-> EmptyStr,
      repo       |-> NoRepo,
      stages     |-> << >>,
      attempt    |-> 0,
      ctxDone    |-> FALSE,
      resp       |-> NoResp,
      gpc        |-> "none",
      admitted   |-> FALSE,
      derr       |-> "",
      extFail    |-> FALSE,
      resultChan |-> << >>,
      calls      |-> 0 ]

VARIABLES
    config,         \* the *models.Config held by DeploymentService and WebhookHandler
    rsConfig,       \* RepositoryService.config
    sshReady,       \* SSHHelper.ready
    fs,             \* the working copies on disk, by path
    activeJobs,     \* DeploymentService.activeJobs: the keys mapped to true
    buildMutex,     \* DeploymentService.buildMutex: the holder, or NoProc
    totalJobs,      \* DeploymentService.totalJobs
    completedJobs,  \* DeploymentService.completedJobs
    failedJobs,     \* DeploymentService.failedJobs
    crashed,        \* the process has died of an unrecovered panic
    proc,           \* the handlers and callers, and the DeployDirect call of each
    shutdown,       \* the call of DeploymentService.Shutdown
    docker,         \* a call of DockerService.Deploy and the container runtime
    git,            \* GitService: appliedSafety and the goroutines running git
    probe,          \* a caller of RepositoryService.IsRepositoryInitialized
    configFile,     \* config.json as it is on disk
    naming,         \* two calls of DockerService.getProjectName
    sshTest,        \* a call of WebhookHandler.executeDeployment up to its SSH test
    dwc,            \* a call of WebhookHandler.deployWithContext and its goroutine
    locks           \* the DeploymentService's three locks and the calls taking them

vars == <<config, rsConfig, sshReady, fs, activeJobs, buildMutex,
          totalJobs, completedJobs, failedJobs, crashed, proc,
          shutdown, docker, git, probe, configFile, naming, sshTest, dwc, locks>>

\* the components an orchestration step leaves alone
aside == <<shutdown, docker, git, probe, configFile, naming, sshTest, dwc, locks>>

\* the configuration file, the project naming, the SSH test, the deployment
\* call of the handler and the locks
units == <<configFile, naming, sshTest, dwc, locks>>

env == <<config, rsConfig, sshReady>>
orch == <<activeJobs, buildMutex, totalJobs, completedJobs, failedJobs, crashed>>
counters == <<totalJobs, completedJobs, failedJobs>>

\* DeploymentService, RepositoryService, WebhookHandler and the callers after
\* initializeServices and setupHTTPServer
InitServices ==
    /\ config \in ConfigSpace
    /\ rsConfig = config
    /\ sshReady \in BOOLEAN
    /\ sshReady \/ config = MkConfig(TheSecret, TRUE, TRUE, TRUE)
    /\ \E w \in {Absent, Cloned("ok")} :
          fs = [path \in Paths |-> IF HasPrefix(path, config.WorkDir) THEN w ELSE Absent]
    /\ activeJobs = {}
    /\ buildMutex = NoProc
    /\ totalJobs = 0
    /\ completedJobs = 0
    /\ failedJobs = 0
    /\ crashed = FALSE
    /\ proc = [ p \in Procs |-> IdleProc ]

(* ------------------------ WebhookHandler.HandleWebhook ---------------- *)

\* h.sendResponse(w, statusCode, response); return
Respond(p, r) ==
    proc' = [proc EXCEPT ![p].pc = "responded", ![p].resp = r]

\* the stage passed; on to the next one
Pass(p, stage, next) ==
    proc' = [proc EXCEPT ![p].pc = next, ![p].stages = Append(@, stage)]

\* the HTTP server hands a request to HandleWebhook
Receive(p, r) ==
    /\ ~crashed
    /\ p \in WebProcs
    /\ proc[p].pc = "idle"
    /\ proc' = [proc EXCEPT ![p].pc = "h_method", ![p].req = r]
    /\ UNCHANGED <<env, aside, fs, orch>>

\* if r.Method != http.MethodPost
CheckMethod(p) ==
    /\ ~crashed
    /\ proc[p].pc = "h_method"
    /\ IF proc[p].req.method # "POST"
       THEN Respond(p, Resp(405, "failed", "Method not allowed"))
       ELSE Pass(p, "method", "h_body")
    /\ UNCHANGED <<env, aside, fs, orch>>

\* body, err := h.readRequestBody(r, requestID)
ReadBody(p) ==
    /\ ~crashed
    /\ proc[p].pc = "h_body"
    /\ IF readRequestBody(proc[p].req) # ""
       THEN Respond(p, Resp(400, "failed", "Bad request"))
       ELSE Pass(p, "body", "h_secret")
    /\ UNCHANGED <<env, aside, fs, orch>>

\* h.validateWebhookSecret(r, body, requestID)
ValidateSecret(p) ==
    /\ ~crashed
    /\ proc[p].pc = "h_secret"
    /\ IF validateWebhookSecret(config.Secret, proc[p].req) # ""
       THEN Respond(p, Resp(401, "failed", "Unauthorized"))
       ELSE \* the handler reads the signature headers never again
            proc' = [proc EXCEPT
                ![p].pc = "h_parse",
                ![p].stages = Append(@, "signature"),
                ![p].req = Request("POST", TRUE, proc[p].req.body, HeadersRead)]
    /\ UNCHANGED <<env, aside, fs, orch>>

\* webhook, err := h.parseWebhook(body, requestID); the body is read never again;
\* branch := strings.TrimPrefix(webhook.Ref, "refs/heads/")
ParseWebhook(p) ==
    /\ ~crashed
    /\ proc[p].pc = "h_parse"
    /\ IF parseWebhook(proc[p].req.body) # ""
       THEN Respond(p, Resp(400, "failed", "Invalid payload"))
       ELSE proc' = [proc EXCEPT
                ![p].pc = "h_validate",
                ![p].stages = Append(@, "parse"),
                ![p].req = Request("POST", TRUE, BodyRead, HeadersRead),
                ![p].webhook = Unmarshal(proc[p].req.body),
                ![p].branch = TrimPrefix(Unmarshal(proc[p].req.body).Ref, RefsHeads)]
    /\ UNCHANGED <<env, aside, fs, orch>>

\* h.validateWebhook(webhook, branch, requestID)
ValidateWebhook(p) ==
    /\ ~crashed
    /\ proc[p].pc = "h_validate"
    /\ IF validateWebhook(proc[p].webhook) # EmptyStr
       THEN Respond(p, Resp(200, "ignored", ""))
       ELSE Pass(p, "ref", "h_repo")
    /\ UNCHANGED <<env, aside, fs, orch>>

\* repo, err := h.validateRepository(webhook.Repository.Name, branch, requestID)
ValidateRepo(p) ==
    /\ ~crashed
    /\ proc[p].pc = "h_repo"
    /\ LET v == validateRepository(rsConfig, proc[p].webhook.Name, proc[p].branch)
       IN  IF v.err # EmptyStr
           THEN Respond(p, RepositoryErrorResponse(v.err))
           ELSE proc' = [proc EXCEPT
                    ![p].pc = "h_ssh",
                    ![p].stages = Append(@, "repository"),
                    ![p].repo = v.repo]
    /\ UNCHANGED <<env, aside, fs, orch>>

\* if !h.gitService.IsSSHAvailable()
CheckSSH(p) ==
    /\ ~crashed
    /\ proc[p].pc = "h_ssh"
    /\ IF ~sshReady
       THEN Respond(p, Resp(503, "failed", "Configuration error"))
       ELSE proc' = [proc EXCEPT
                ![p].pc = "h_sshtest",
                ![p].stages = Append(@, "ssh_ready"),
                ![p].attempt = 1]
    /\ UNCHANGED <<env, aside, fs, orch>>

\* executeDeployment: ctx with the 15 minute deadline; the deadline passes
\* (the handler looks at ctx in testSSHConnection and in deployWithContext)
Timeout(p) ==
    /\ ~crashed
    /\ proc[p].pc \in {"h_sshtest", "h_wait"}
    /\ ~proc[p].ctxDone
    /\ proc' = [proc EXCEPT ![p].ctxDone = TRUE]
    /\ UNCHANGED <<env, aside, fs, orch>>

\* h.testSSHConnection(ctx, requestID): one iteration of the retry loop;
\* ok is the result of gitService.TestSSHConnection()
TestSSH(p, ok) ==
    /\ ~crashed
    /\ proc[p].pc = "h_sshtest"
    /\ IF proc[p].ctxDone
       THEN Respond(p, Resp(500, "failed", "Deployment failed"))
       ELSE IF ok
       THEN Pass(p, "ssh_test", "h_safety")
       ELSE IF proc[p].attempt < maxRetries
       THEN proc' = [proc EXCEPT ![p].attempt = @ + 1]
       ELSE Respond(p, Resp(500, "failed", "Deployment failed"))
    /\ UNCHANGED <<env, aside, fs, orch>>

\* h.applyGitSafetyFixes(repoPath, requestID): its failure is only logged
ApplyGitSafetyFixes(p) ==
    /\ ~crashed
    /\ proc[p].pc = "h_safety"
    /\ proc' = [proc EXCEPT ![p].pc = "h_deploy"]
    /\ UNCHANGED <<env, aside, fs, orch>>

\* deployWithContext: go func() { ... h.deploymentService.DeployDirect(repo, branch) ... }()
SpawnDeploy(p) ==
    /\ ~crashed
    /\ proc[p].pc = "h_deploy"
    /\ proc' = [proc EXCEPT
            ![p].pc = "h_wait",
            ![p].gpc = "dd_check",
            ![p].calls = @ + 1]
    /\ UNCHANGED <<env, aside, fs, orch>>

\* deployWithContext: case err := <-resultChan: return err
AwaitResult(p) ==
    /\ ~crashed
    /\ proc[p].pc = "h_wait"
    /\ proc[p].resultChan # << >>
    /\ proc' = [proc EXCEPT
            ![p].pc = "responded",
            ![p].resultChan = Tail(@),
            ![p].resp = IF Head(proc[p].resultChan) = ""
                        THEN Resp(200, "success", "")
                        ELSE Resp(500, "failed", "Deployment failed")]
    /\ UNCHANGED <<env, aside, fs, orch>>

\* a deadline that also clears the job's key
AwaitTimeoutCancel(p) ==
    /\ ~crashed
    /\ proc[p].pc = "h_wait"
    /\ proc[p].ctxDone
    /\ proc' = [proc EXCEPT ![p].pc = "responded",
                            ![p].resp = [ code |-> 500, status |-> "failed",
                                          error |-> "Deployment failed" ]]
    /\ activeJobs' = activeJobs \ {proc[p].repo.Name \o <<":">> \o proc[p].branch}
    /\ UNCHANGED <<env, aside, fs, buildMutex, totalJobs, completedJobs, failedJobs, crashed>>

\* deployWithContext: case <-ctx.Done(): return "deployment timeout"
AwaitTimeout(p) ==
    /\ ~crashed
    /\ proc[p].pc = "h_wait"
    /\ proc[p].ctxDone
    /\ Respond(p, Resp(500, "failed", "Deployment failed"))
    /\ UNCHANGED <<env, aside, fs, orch>>

(* ------------------------------- runDeploy ---------------------------- *)

\* runDeploy(repoName, branch): a caller of DeployDirect other than the
\* webhook goroutine; the callers share one DeploymentService
RunDeploy(p, repoName, branch) ==
    /\ ~crashed
    /\ p \in CliProcs
    /\ proc[p].pc = "idle"
    /\ LET repo == GetRepository(rsConfig, repoName)
       IN  IF repo = NoRepo \/ ~IsBranchConfigured(repo, branch)
           THEN proc' = [proc EXCEPT ![p].pc = "done"]
           ELSE proc' = [proc EXCEPT
                    ![p].pc = "cli_call",
                    ![p].repo = repo,
                    ![p].branch = branch,
                    ![p].gpc = "dd_check",
                    ![p].calls = @ + 1]
    /\ UNCHANGED <<env, aside, fs, orch>>

(* ------------------------- config.WatchConfig ------------------------- *)

\* what the configuration file is changed to
ReloadSpace ==
    { MkConfig(TheSecret, TRUE, TRUE, TRUE),
      [ MkConfig(TheSecret, TRUE, TRUE, TRUE) EXCEPT !.WorkDir = MovedWorkDir ] }

\* the callback runServer gives WatchConfig:
\* repositoryService.UpdateConfig(newConfig); cfg = newConfig.
\* DeploymentService and WebhookHandler keep the pointer they were built with
UpdateConfig(newConfig) ==
    /\ ~crashed
    /\ rsConfig' = newConfig
    /\ UNCHANGED <<config, sshReady, aside, fs, orch, proc>>

\* config.json is rewritten; its modification time is now after lastModTime
WriteConfigFile(file) ==
    /\ file # configFile.disk
    /\ configFile' = [configFile EXCEPT !.disk = file, !.modified = TRUE]
    /\ UNCHANGED <<env, fs, orch, proc, shutdown, docker, git, probe, naming, sshTest,
                   dwc, locks>>

\* WatchConfig: a tick that finds the file modified; Load, then the callback
WatchConfig ==
    /\ configFile.modified
    /\ ~crashed
    /\ configFile' = [configFile EXCEPT !.loaded = configFile.disk, !.modified = FALSE]
    /\ rsConfig' = Load(configFile.disk)
    /\ UNCHANGED <<config, sshReady, fs, orch, proc, shutdown, docker, git, probe,
                   naming, sshTest, dwc, locks>>

(* --------------------- DeploymentService.DeployDirect ----------------- *)

Key(p) == JobKey(proc[p].repo.Name, proc[p].branch)

\* a lookup that misses the entry; a delete that leaves it; a lock that
\* never waits
NeverActive(jobs, key) == FALSE
KeepJob(jobs, key) == jobs
AlwaysLock(holder) == TRUE

\* if ds.activeJobs[jobKey]
IsActive(jobs, key) == key \in jobs

\* ds.activeJobs[jobKey] = true
MarkActive(jobs, key) == jobs \cup {key}

\* delete(ds.activeJobs, jobKey)
DeleteJob(jobs, key) == jobs \ {key}

\* sync.Mutex.Lock returns only when no goroutine holds the mutex
CanLock(holder) == holder = NoProc

\* the test-and-set of the key under activeJobsMu
Admit(p) ==
    /\ ~crashed
    /\ proc[p].gpc = "dd_check"
    /\ IF IsActive(activeJobs, Key(p))
       THEN /\ proc' = [proc EXCEPT
                    ![p].gpc = "returned",
                    ![p].derr = "deployment already in progress"]
            /\ UNCHANGED activeJobs
       ELSE /\ activeJobs' = MarkActive(activeJobs, Key(p))
            /\ proc' = [proc EXCEPT ![p].gpc = "dd_isinit", ![p].admitted = TRUE]
    /\ UNCHANGED <<env, aside, fs, buildMutex, counters, crashed>>

\* if !ds.repositoryService.IsRepositoryInitialized(repo.Name, branch)
CheckInitialized(p) ==
    /\ ~crashed
    /\ proc[p].gpc = "dd_isinit"
    /\ proc' = [proc EXCEPT ![p].gpc =
            IF IsRepositoryInitialized(rsConfig, fs, proc[p].repo.Name, proc[p].branch)
            THEN "dd_total" ELSE "dd_init"]
    /\ UNCHANGED <<env, aside, fs, orch>>

\* GitService.SetupRepository(repo, branch, repoPath) on the working copy w:
\* clone when the directory is absent, fetch and hard reset otherwise;
\* gitOk is the outcome of the git commands, compose what the remote
\* branch holds at the compose file's path
SetupRepository(w, gitOk, compose) ==
    IF ~w.dir
    THEN IF gitOk THEN Cloned(compose) ELSE Absent
    ELSE IF gitOk THEN [w EXCEPT !.compose = compose] ELSE w

\* RepositoryService.InitializeRepository: the working copy it leaves and
\* whether it returns nil
InitializeRepository(c, files, repo, branch, gitOk, compose) ==
    LET path == getRepositoryPath(c, repo.Name, branch)
        w    == SetupRepository(Absent, gitOk, compose)
    IN  IF ~ValidateRepository(repo) \/ ~IsBranchConfigured(repo, branch)
        THEN [ ok |-> FALSE, files |-> files ]
        ELSE [ ok    |-> gitOk /\ verifyDockerCompose(w),
               files |-> IF path \in DOMAIN files
                         THEN [files EXCEPT ![path] = w] ELSE files ]

\* InitializeRepository step by step

\* the models.Repository values InitializeRepository is called with: app as
\* configured, and app with one field that ValidateRepository or
\* IsBranchConfigured refuses
InitRepoSpace ==
    LET app == Repository(AppName, <<Main>>, TRUE, TRUE)
    IN  { app,
          [app EXCEPT !.GitURL = EmptyStr],
          [app EXCEPT !.GitURL = <<"ftp://", "example.com/app">>],
          [app EXCEPT !.Branches = << >>],
          [app EXCEPT !.ComposeFile = EmptyStr],
          [app EXCEPT !.Branches = <<FeatureX>>] }

\* an InitializeRepository that does not ask whether the branch is configured
BranchUnchecked(repo, branch) == TRUE

\* if !rs.IsBranchConfigured(&repo, branch)
BranchChecked(repo, branch) == IsBranchConfigured(repo, branch)

\* InitializeRepository(repo, branch) is called
InitializeRepositoryBegin(p, repo, branch) ==
    /\ ~crashed
    /\ p \in CliProcs
    /\ proc[p].pc = "idle"
    /\ proc' = [proc EXCEPT ![p].pc = "cli_call",
                            ![p].repo = repo,
                            ![p].branch = branch,
                            ![p].gpc = "ir_validate",
                            ![p].calls = @ + 1]
    /\ UNCHANGED <<env, aside, fs, orch>>

\* if err := rs.ValidateRepository(repo); err != nil { return ... }
CheckRepository(p) ==
    /\ ~crashed
    /\ proc[p].gpc = "ir_validate"
    /\ proc' = IF ValidateRepository(proc[p].repo)
               THEN [proc EXCEPT ![p].gpc = "ir_branch"]
               ELSE [proc EXCEPT ![p].gpc = "ir_returned",
                                 ![p].derr = "repository validation failed"]
    /\ UNCHANGED <<env, aside, fs, orch>>

\* if !rs.IsBranchConfigured(&repo, branch) { return ... }
CheckBranch(p) ==
    /\ ~crashed
    /\ proc[p].gpc = "ir_branch"
    /\ proc' = IF BranchChecked(proc[p].repo, proc[p].branch)
               THEN [proc EXCEPT ![p].gpc = "ir_cleanup"]
               ELSE [proc EXCEPT ![p].gpc = "ir_returned",
                                 ![p].derr = "branch is not configured"]
    /\ UNCHANGED <<env, aside, fs, orch>>

\* rs.cleanupCorruptedRepository(repoPath): os.RemoveAll when the directory
\* exists; its failure is only logged
CleanupCorruptedRepository(p, removed) ==
    /\ ~crashed
    /\ proc[p].gpc = "ir_cleanup"
    /\ LET path == getRepositoryPath(rsConfig, proc[p].repo.Name, proc[p].branch)
       IN  fs' = IF path \in DOMAIN fs /\ fs[path].dir /\ removed
                 THEN [fs EXCEPT ![path] = Absent]
                 ELSE fs
    /\ proc' = [proc EXCEPT ![p].gpc = "ir_setup"]
    /\ UNCHANGED <<env, aside, orch>>

\* rs.gitService.SetupRepository(repo, branch, repoPath)
SetupWorkingCopy(p, gitOk, compose) ==
    /\ ~crashed
    /\ proc[p].gpc = "ir_setup"
    /\ LET path == getRepositoryPath(rsConfig, proc[p].repo.Name, proc[p].branch)
       IN  fs' = IF path \in DOMAIN fs
                 THEN [fs EXCEPT ![path] = SetupRepository(fs[path], gitOk, compose)]
                 ELSE fs
    /\ proc' = IF gitOk
               THEN [proc EXCEPT ![p].gpc = "ir_verify"]
               ELSE [proc EXCEPT ![p].gpc = "ir_returned",
                                 ![p].derr = "failed to setup repository"]
    /\ UNCHANGED <<env, aside, orch>>

\* rs.verifyDockerCompose(repo, repoPath); return nil
VerifyWorkingCopy(p) ==
    /\ ~crashed
    /\ proc[p].gpc = "ir_verify"
    /\ LET path == getRepositoryPath(rsConfig, proc[p].repo.Name, proc[p].branch)
       IN  proc' = IF verifyDockerCompose(StatPath(fs, path))
                   THEN [proc EXCEPT ![p].gpc = "ir_returned"]
                   ELSE [proc EXCEPT ![p].gpc = "ir_returned",
                                     ![p].derr = "docker compose verification failed"]
    /\ UNCHANGED <<env, aside, fs, orch>>

\* an external command failed, or the remote branch holds no usable compose file
ExternalFailure(gitOk, compose) == ~gitOk \/ compose # "ok"

\* ds.repositoryService.InitializeRepository(repo, branch)
AutoInitialize(p, gitOk, compose) ==
    /\ ~crashed
    /\ proc[p].gpc = "dd_init"
    /\ LET r == InitializeRepository(rsConfig, fs, proc[p].repo, proc[p].branch,
                                     gitOk, compose)
       IN  /\ fs' = r.files
           /\ proc' = IF r.ok
                      THEN [proc EXCEPT ![p].gpc = "dd_total"]
                      ELSE [proc EXCEPT ![p].gpc = "dd_initfail",
                                        ![p].derr = "auto-initialization failed",
                                        ![p].extFail = ExternalFailure(gitOk, compose)]
    /\ UNCHANGED <<env, aside, orch>>

\* an initialization failure that is returned without being counted
InitFailedUncounted(p) ==
    /\ ~crashed
    /\ proc[p].gpc = "dd_initfail"
    /\ proc' = [proc EXCEPT ![p].gpc = "dd_defer"]
    /\ UNCHANGED <<env, aside, fs, orch>>

\* auto-initialization failed: ds.failedJobs++; return
InitFailed(p) ==
    /\ ~crashed
    /\ proc[p].gpc = "dd_initfail"
    /\ failedJobs' = failedJobs + 1
    /\ proc' = [proc EXCEPT ![p].gpc = "dd_defer"]
    /\ UNCHANGED <<env, aside, fs, activeJobs, buildMutex, totalJobs, completedJobs, crashed>>

\* ds.totalJobs++
CountTotal(p) ==
    /\ ~crashed
    /\ proc[p].gpc = "dd_total"
    /\ totalJobs' = totalJobs + 1
    /\ proc' = [proc EXCEPT ![p].gpc = "es_lock"]
    /\ UNCHANGED <<env, aside, fs, activeJobs, buildMutex, completedJobs, failedJobs, crashed>>

(* ---------------- DeploymentService.executeSmartDeployment ------------ *)

\* return an error from executeSmartDeployment
Fail(p, err) == proc' = [proc EXCEPT ![p].gpc = "es_unlock", ![p].derr = err]

\* ds.buildMutex.Lock()
LockBuild(p) ==
    /\ ~crashed
    /\ proc[p].gpc = "es_lock"
    /\ CanLock(buildMutex)
    /\ buildMutex' = p
    /\ proc' = [proc EXCEPT ![p].gpc = "es_validate"]
    /\ UNCHANGED <<env, aside, fs, activeJobs, counters, crashed>>

\* if !ds.repositoryService.IsRepositoryInitialized(repo.Name, branch)
Revalidate(p) ==
    /\ ~crashed
    /\ proc[p].gpc = "es_validate"
    /\ IF IsRepositoryInitialized(rsConfig, fs, proc[p].repo.Name, proc[p].branch)
       THEN proc' = [proc EXCEPT ![p].gpc = "es_update"]
       ELSE Fail(p, "repository validation failed")
    /\ UNCHANGED <<env, aside, fs, orch>>

\* ds.gitService.SetupRepository(repo, branch, repoPath)
UpdateRepository(p, gitOk, compose) ==
    /\ ~crashed
    /\ proc[p].gpc = "es_update"
    /\ LET path == RepoPath(config.WorkDir, proc[p].repo.Name, proc[p].branch)
       IN  fs' = IF path \in DOMAIN fs
                 THEN [fs EXCEPT ![path] = SetupRepository(fs[path], gitOk, compose)]
                 ELSE fs
    /\ IF gitOk
       THEN proc' = [proc EXCEPT ![p].gpc = "es_compose",
                                 ![p].extFail = ExternalFailure(gitOk, compose)]
       ELSE proc' = [proc EXCEPT ![p].gpc = "es_unlock",
                                 ![p].derr = "repository update failed",
                                 ![p].extFail = TRUE]
    /\ UNCHANGED <<env, aside, orch>>

\* if _, err := os.Stat(composeFile); os.IsNotExist(err)
ComposeFileFound(w) == w.dir /\ w.compose # "none"

VerifyCompose(p) ==
    /\ ~crashed
    /\ proc[p].gpc = "es_compose"
    /\ IF ComposeFileFound(StatPath(fs, RepoPath(config.WorkDir, proc[p].repo.Name,
                                                 proc[p].branch)))
       THEN proc' = [proc EXCEPT ![p].gpc = "es_docker"]
       ELSE Fail(p, "docker-compose file not found after update")
    /\ UNCHANGED <<env, aside, fs, orch>>

\* services, err := ds.dockerService.Deploy(repo, branch, repoPath)
DockerDeploy(p, ok) ==
    /\ ~crashed
    /\ proc[p].gpc = "es_docker"
    /\ IF ~ok
       THEN proc' = [proc EXCEPT ![p].gpc = "es_unlock",
                                 ![p].derr = "docker deployment failed",
                                 ![p].extFail = TRUE]
       ELSE proc' = [proc EXCEPT ![p].gpc =
                IF config.CleanupEnabled THEN "es_cleanup" ELSE "es_unlock"]
    /\ UNCHANGED <<env, aside, fs, orch>>

\* ds.dockerService.Cleanup(): its failure is only logged
DockerCleanup(p) ==
    /\ ~crashed
    /\ proc[p].gpc = "es_cleanup"
    /\ proc' = [proc EXCEPT ![p].gpc = "es_unlock"]
    /\ UNCHANGED <<env, aside, fs, orch>>

\* defer ds.buildMutex.Unlock()
UnlockBuild(p) ==
    /\ ~crashed
    /\ proc[p].gpc = "es_unlock"
    /\ buildMutex' = NoProc
    /\ proc' = [proc EXCEPT ![p].gpc = "dd_count"]
    /\ UNCHANGED <<env, aside, fs, activeJobs, counters, crashed>>

\* ds.failedJobs++ after a failed executeSmartDeployment, ds.completedJobs++
\* after a successful one
CountOutcome(p) ==
    /\ ~crashed
    /\ proc[p].gpc = "dd_count"
    /\ IF proc[p].derr # ""
       THEN failedJobs' = failedJobs + 1 /\ UNCHANGED completedJobs
       ELSE completedJobs' = completedJobs + 1 /\ UNCHANGED failedJobs
    /\ proc' = [proc EXCEPT ![p].gpc = "dd_defer"]
    /\ UNCHANGED <<env, aside, fs, activeJobs, buildMutex, totalJobs, crashed>>

\* the deferred delete(ds.activeJobs, jobKey), and the return to the caller
DeferredDelete(p) ==
    /\ ~crashed
    /\ proc[p].gpc = "dd_defer"
    /\ activeJobs' = DeleteJob(activeJobs, Key(p))
    /\ proc' = [proc EXCEPT ![p].gpc = "returned"]
    /\ UNCHANGED <<env, aside, fs, buildMutex, counters, crashed>>

\* a panic in an external call made by DeployDirect: the deferred functions run
Panic(p) ==
    /\ ~crashed
    /\ proc[p].gpc \in {"dd_init", "es_docker"}
    /\ proc' = [proc EXCEPT
            ![p].gpc = IF buildMutex = p THEN "es_unwind" ELSE "dd_unwind",
            ![p].derr = "panic",
            ![p].extFail = TRUE]
    /\ UNCHANGED <<env, aside, fs, orch>>

\* the deferred ds.buildMutex.Unlock() of a panicking executeSmartDeployment
UnwindUnlock(p) ==
    /\ ~crashed
    /\ proc[p].gpc = "es_unwind"
    /\ buildMutex' = NoProc
    /\ proc' = [proc EXCEPT ![p].gpc = "dd_unwind"]
    /\ UNCHANGED <<env, aside, fs, activeJobs, counters, crashed>>

\* the deferred delete of a panicking DeployDirect; nothing recovers the
\* panic, so the process dies
UnwindDelete(p) ==
    /\ ~crashed
    /\ proc[p].gpc = "dd_unwind"
    /\ activeJobs' = DeleteJob(activeJobs, Key(p))
    /\ crashed' = TRUE
    /\ proc' = [proc EXCEPT ![p].gpc = "panicked"]
    /\ UNCHANGED <<env, aside, fs, buildMutex, counters>>

\* deployWithContext's goroutine: resultChan <- err (buffered, capacity 1)
SendResult(p) ==
    /\ ~crashed
    /\ p \in WebProcs
    /\ proc[p].gpc = "returned"
    /\ proc' = [proc EXCEPT ![p].gpc = "exited", ![p].resultChan = Append(@, proc[p].derr)]
    /\ UNCHANGED <<env, aside, fs, orch>>

\* runDeploy: DeployDirect has returned
RunDeployReturn(p) ==
    /\ ~crashed
    /\ p \in CliProcs
    /\ proc[p].gpc = "returned"
    /\ proc' = [proc EXCEPT ![p].gpc = "exited", ![p].pc = "done"]
    /\ UNCHANGED <<env, aside, fs, orch>>

(* -------------------- DeploymentService.Shutdown --------------------- *)

\* Shutdown has not been called
IdleShutdown == [ pc |-> "idle", elapsed |-> 0, result |-> "" ]

\* setupGracefulShutdown: the signal arrives; deploymentService.Shutdown(timeout):
\* start := time.Now()
ShutdownBegin ==
    /\ ~crashed
    /\ shutdown.pc = "idle"
    /\ shutdown' = [shutdown EXCEPT !.pc = "poll"]
    /\ UNCHANGED <<env, fs, orch, proc, docker, git, probe, units>>

\* a Shutdown that reports success once the time is up
ShutdownPollLenient ==
    /\ ~crashed
    /\ shutdown.pc = "poll"
    /\ IF shutdown.elapsed < ShutdownTimeout /\ activeJobs # {}
       THEN shutdown' = [shutdown EXCEPT !.pc = "sleep"]
       ELSE shutdown' = [shutdown EXCEPT !.pc = "done", !.result = "nil"]
    /\ UNCHANGED <<env, fs, orch, proc, docker, git, probe, units>>

\* for time.Since(start) < timeout { if len(ds.activeJobs) == 0 { return nil } ... }
\* return fmt.Errorf("shutdown timeout exceeded")
ShutdownPoll ==
    /\ ~crashed
    /\ shutdown.pc = "poll"
    /\ IF shutdown.elapsed < ShutdownTimeout
       THEN IF activeJobs = {}
            THEN shutdown' = [shutdown EXCEPT !.pc = "done", !.result = "nil"]
            ELSE shutdown' = [shutdown EXCEPT !.pc = "sleep"]
       ELSE shutdown' = [shutdown EXCEPT !.pc = "done",
                                         !.result = "shutdown timeout exceeded"]
    /\ UNCHANGED <<env, fs, orch, proc, docker, git, probe, units>>

\* time.Sleep(time.Second): d seconds later the goroutine runs again
ShutdownSleep(d) ==
    /\ ~crashed
    /\ shutdown.pc = "sleep"
    /\ shutdown' = [shutdown EXCEPT
            !.pc = "poll",
            !.elapsed = IF @ + d > ShutdownTimeout THEN ShutdownTimeout ELSE @ + d]
    /\ UNCHANGED <<env, fs, orch, proc, docker, git, probe, units>>

(* --------------------- DockerService.getProjectName ------------------- *)

\* Repository and branch names are sequences of characters here, so that
\* fmt.Sprintf("%s-%s", ...) joins what the code joins.
MyName == <<"m", "y">>
MyAppName == <<"m", "y", "-", "a", "p", "p">>
MainBranch == <<"m", "a", "i", "n">>
AppMainBranch == <<"a", "p", "p", "-", "m", "a", "i", "n">>
WebProject == <<"w", "e", "b">>

\* models.BranchEnvironment
BranchEnvironment(projectName) == [ ProjectName |-> projectName ]

\* DockerService.getProjectName
getProjectName(repo, branch) ==
    IF /\ branch \in DOMAIN repo.BranchConfig
       /\ repo.BranchConfig[branch].ProjectName # EmptyStr
    THEN repo.BranchConfig[branch].ProjectName
    ELSE repo.Name \o <<"-">> \o branch

\* the branch_config maps of a repository: any branches as keys, each with a
\* project_name or none
BranchConfigSpace ==
    UNION { [ keys -> { BranchEnvironment(EmptyStr), BranchEnvironment(WebProject) } ] :
              keys \in SUBSET {MainBranch, AppMainBranch} }

\* the repositories of a configuration, as far as getProjectName reads them
NamedRepositorySpace(name) ==
    { [ Name |-> name, Branches |-> branches, BranchConfig |-> branchConfig ] :
        branches \in { <<MainBranch>>, <<AppMainBranch>>, <<MainBranch, AppMainBranch>> },
        branchConfig \in BranchConfigSpace }

\* configurations of two repositories whose names differ
NamingSpace ==
    { << a, b >> : a \in NamedRepositorySpace(MyName),
                   b \in NamedRepositorySpace(MyAppName) }

NoNaming == [ Repositories |-> << >>, called |-> FALSE,
              a |-> << >>, b |-> << >>, nameA |-> EmptyStr, nameB |-> EmptyStr ]

\* Deploy is called for two (repository, branch) pairs of the configuration
\* and asks getProjectName for each
NameBoth(i, bi, j, bj) ==
    LET repos == naming.Repositories
    IN  /\ ~naming.called
        /\ i \in 1..Len(repos) /\ bi \in 1..Len(repos[i].Branches)
        /\ j \in 1..Len(repos) /\ bj \in 1..Len(repos[j].Branches)
        /\ naming' = [naming EXCEPT
                        !.called = TRUE,
                        !.a = << repos[i].Name, repos[i].Branches[bi] >>,
                        !.b = << repos[j].Name, repos[j].Branches[bj] >>,
                        !.nameA = getProjectName(repos[i], repos[i].Branches[bi]),
                        !.nameB = getProjectName(repos[j], repos[j].Branches[bj])]
        /\ UNCHANGED <<env, fs, orch, proc, shutdown, docker, git, probe,
                       configFile, sshTest, dwc, locks>>

(* ------------------------- DockerService.Deploy ----------------------- *)

\* Container and project names are sequences of characters, so that
\* strings.Contains and strings.Split see what the code sees.

\* getProjectName: fmt.Sprintf("%s-%s", repo.Name, branch), for app and main
projectName == <<"a", "p", "p", "-", "m", "a", "i", "n">>

\* containers the runtime may hold that the compose project does not own:
\* a stale container under the project's default name, one under a fixed
\* container_name, one of another application, one unrelated
StaleContainer == projectName \o <<"-", "w", "e", "b">>
FixedContainer == <<"w", "e", "b">>
HappyContainer == <<"h", "a", "p", "p", "y">>
RedisContainer == <<"r", "e", "d", "i", "s">>
ContainerSpace == { StaleContainer, FixedContainer, HappyContainer, RedisContainer }

\* the container names the project's services may need
NeedSpace == { StaleContainer, FixedContainer }

\* strings.Split(s, sep), sep one character
RECURSIVE Split(_, _)
Split(s, sep) ==
    IF \A i \in 1..Len(s) : s[i] # sep
    THEN << s >>
    ELSE LET k == CHOOSE i \in 1..Len(s) :
                    s[i] = sep /\ \A j \in 1..(i - 1) : s[j] # sep
         IN  << SubSeq(s, 1, k - 1) >> \o Split(SubSeq(s, k + 1, Len(s)), sep)

\* cleanupContainersByPattern: the containers it tries to remove
MatchesPattern(container, project) ==
    Contains(container, project) \/ HasPrefix(container, project)

\* cleanupSimilarContainers: the containers it tries to remove
MatchesSimilar(container, project) ==
    LET projectParts == Split(project, "-")
    IN  \E i \in 1..Len(projectParts) :
            projectParts[i] # << >> /\ Contains(container, projectParts[i])

\* what a sweep may remove: nothing when `docker ps` fails, else any of the
\* matching containers (each `docker rm -f` succeeds or fails)
Removable(containers, matching, listOk) ==
    IF listOk THEN SUBSET { c \in containers : c \in matching } ELSE { {} }

\* no Deploy is running
IdleDocker ==
    [ pc         |-> "idle",
      containers |-> {},
      need       |-> << >>,
      attempt    |-> 0,
      cause      |-> "",
      output     |-> << >>,
      extracted  |-> << >>,
      trace      |-> << >>,
      listFailed |-> FALSE,
      services   |-> << >>,
      err        |-> "" ]

\* the runtimes and projects a Deploy is called on
DockerSpace ==
    { [ IdleDocker EXCEPT !.containers = cs, !.need = n ] :
        cs \in SUBSET ContainerSpace, n \in NeedSpace }

\* an action of Deploy leaves the rest of the program alone
DockerOnly == UNCHANGED <<env, fs, orch, proc, shutdown, git, probe, units>>

\* DockerService.Deploy(repo, branch, repoPath)
DeployBegin ==
    /\ docker.pc = "idle"
    /\ docker' = [docker EXCEPT !.pc = "stop"]
    /\ DockerOnly

\* the entry the trace gets for `down`
Down(downOk) == IF downOk THEN "down:ok" ELSE "down:failed"

\* a stopServices whose failure Deploy returns
StopServicesStrict(downOk, listOk) ==
    /\ docker.pc = "stop"
    /\ \E removed \in Removable(docker.containers,
                                { c \in ContainerSpace : MatchesPattern(c, projectName) },
                                ~downOk /\ listOk) :
        docker' = IF downOk
                  THEN [docker EXCEPT !.pc = "proactive",
                                      !.containers = @ \ removed,
                                      !.trace = Append(@, Down(downOk))]
                  ELSE [docker EXCEPT !.pc = "done",
                                      !.containers = @ \ removed,
                                      !.err = "failed to stop services",
                                      !.trace = Append(@, Down(downOk))]
    /\ DockerOnly

\* stopServices: `down --remove-orphans`; when it fails,
\* aggressiveProjectCleanup, which ends in the pattern sweep; nil either way
StopServices(downOk, listOk) ==
    /\ docker.pc = "stop"
    /\ \E removed \in Removable(docker.containers,
                                { c \in ContainerSpace : MatchesPattern(c, projectName) },
                                ~downOk /\ listOk) :
        docker' = [docker EXCEPT !.pc = "proactive",
                                 !.containers = @ \ removed,
                                 !.trace = Append(@, Down(downOk))]
    /\ DockerOnly

\* startServices: the proactive cleanupContainersByPattern; attempt := 1
ProactiveCleanup(listOk) ==
    /\ docker.pc = "proactive"
    /\ \E removed \in Removable(docker.containers,
                                { c \in ContainerSpace : MatchesPattern(c, projectName) },
                                listOk) :
        docker' = [docker EXCEPT !.pc = "up",
                                 !.attempt = 1,
                                 !.containers = @ \ removed,
                                 !.trace = Append(@, "proactive")]
    /\ DockerOnly

\* startServices: `attempt <= maxRetries`, the loop's condition
LoopContinuesLenient(attempt) == attempt <= startMaxRetries + 1

LoopContinues(attempt) == attempt <= startMaxRetries

\* startServices: after a conflict's cleanup, attempt++ and the loop's test;
\* past the last attempt the aggregated failure
NextAttempt(d) ==
    IF LoopContinues(d.attempt + 1)
    THEN [d EXCEPT !.pc = "up", !.attempt = @ + 1, !.trace = Append(@, "sleep")]
    ELSE [d EXCEPT !.pc = "done",
                   !.err = "failed to start services after 3 attempts"]

\* The combined output of `up` is a sequence of symbols: the phrases the
\* extraction looks for are one symbol each, everything else is a character.
Quote == "\""

\* strings.Index, counted from 1; 0 when sub does not occur
Index(s, sub) ==
    IF Contains(s, sub)
    THEN CHOOSE i \in 1..(Len(s) + 1) :
            /\ i + Len(sub) - 1 <= Len(s)
            /\ SubSeq(s, i, i + Len(sub) - 1) = sub
            /\ \A j \in 1..(i - 1) : SubSeq(s, j, j + Len(sub) - 1) # sub
    ELSE 0

\* s[from:]
From(s, from) == SubSeq(s, from, Len(s))

\* strings.Fields
Fields(line) == SelectSeq(Split(line, " "), LAMBDA part : part # << >>)

\* the ids `docker inspect` knows, and the name it prints for them
KnownID == <<"c", "0">>
UnknownID == <<"z", "9">>
InspectName(containerID) ==
    IF containerID = KnownID THEN <<"/">> \o RedisContainer ELSE EmptyStr

\* DockerService.getContainerNameFromID
getContainerNameFromID(containerID) ==
    LET name == InspectName(containerID)
    IN  IF HasPrefix(name, <<"/">>) THEN From(name, 2) ELSE name

\* the text between `open` and the next quote, searched in s; found is
\* false when either is missing
Quoted(s, open) ==
    LET start     == Index(s, open)
        nameStart == start + Len(open)
        end       == Index(From(s, nameStart), << Quote >>)
    IN  IF start # 0 /\ end # 0
        THEN [ found |-> TRUE, name |-> SubSeq(s, nameStart, nameStart + end - 2) ]
        ELSE [ found |-> FALSE, name |-> EmptyStr ]

\* extractConflictingContainerName, pattern 2: the field after "Container"
\* on the first line that has one, among the lines holding "Container" and
\* "Creating" or "Error"
RECURSIVE FieldAfterContainer(_)
FieldAfterContainer(lines) ==
    IF lines = << >> THEN [ found |-> FALSE, name |-> EmptyStr ]
    ELSE LET line  == Head(lines)
             parts == Fields(line)
             hits  == { i \in 1..Len(parts) :
                          parts[i] = << "Container" >> /\ i + 1 <= Len(parts) }
         IN  IF /\ Contains(line, << "Container" >>)
                /\ Contains(line, << "Creating" >>) \/ Contains(line, << "Error" >>)
                /\ hits # {}
             THEN [ found |-> TRUE,
                    name  |-> parts[(CHOOSE i \in hits : \A j \in hits : i <= j) + 1] ]
             ELSE FieldAfterContainer(Tail(lines))

\* an extraction that tries the first quoted path before the line scan
extractQuotedFirst(outputStr) ==
    LET idx  == Index(outputStr, << "The container name" >>)
        one  == IF idx # 0 THEN Quoted(From(outputStr, idx), << Quote, "/" >>)
                ELSE [ found |-> FALSE, name |-> EmptyStr ]
        two  == FieldAfterContainer(Split(outputStr, "\n"))
        three == Quoted(outputStr, << Quote, "/" >>)
        idx4 == Index(outputStr, << "already in use by container" >>)
        four == IF idx4 # 0 THEN Quoted(From(outputStr, idx4), << Quote >>)
                ELSE [ found |-> FALSE, name |-> EmptyStr ]
    IN  IF one.found THEN one.name
        ELSE IF three.found THEN three.name
        ELSE IF two.found THEN two.name
        ELSE IF four.found THEN getContainerNameFromID(four.name)
        ELSE EmptyStr

\* DockerService.extractConflictingContainerName
extractConflictingContainerName(outputStr) ==
    LET idx   == Index(outputStr, << "The container name" >>)
        one   == IF idx # 0 THEN Quoted(From(outputStr, idx), << Quote, "/" >>)
                 ELSE [ found |-> FALSE, name |-> EmptyStr ]
        two   == FieldAfterContainer(Split(outputStr, "\n"))
        three == Quoted(outputStr, << Quote, "/" >>)
        idx4  == Index(outputStr, << "already in use by container" >>)
        four  == IF idx4 # 0 THEN Quoted(From(outputStr, idx4), << Quote >>)
                 ELSE [ found |-> FALSE, name |-> EmptyStr ]
    IN  IF one.found THEN one.name
        ELSE IF two.found THEN two.name
        ELSE IF three.found THEN three.name
        ELSE IF four.found THEN getContainerNameFromID(four.name)
        ELSE EmptyStr

\* what docker prints, fragment by fragment: the daemon's sentence naming a
\* container, compose's progress line for one, a quoted path, the daemon's
\* clause naming the holder by id, any other word
Fragment(kind, arg) ==
    IF kind = "named" THEN << "The container name", " ", Quote, "/" >> \o arg \o << Quote >>
    ELSE IF kind = "progress" THEN << "Container", " " >> \o arg \o << " ", "Creating" >>
    ELSE IF kind = "path" THEN << Quote, "/" >> \o arg \o << Quote >>
    ELSE IF kind = "holder" THEN << "already in use by container", " ", Quote >> \o arg \o << Quote >>
    ELSE << "Conflict" >>

\* the fragments of the model, each ending a line or not
FragmentSpace ==
    { [ kind |-> f[1], arg |-> f[2], sep |-> sep ] :
        f \in { << "named", FixedContainer >>, << "progress", StaleContainer >>,
                << "path", HappyContainer >>, << "holder", KnownID >>,
                << "holder", UnknownID >>, << "word", EmptyStr >> },
        sep \in { " ", "\n" } }

\* the outputs of a failed `up`, as lists of fragments
OutputSpace ==
    UNION { [ 1..n -> FragmentSpace ] : n \in 0..MaxFragments }

\* the text of an output
RECURSIVE Text(_)
Text(fragments) ==
    IF fragments = << >> THEN << >>
    ELSE Fragment(Head(fragments).kind, Head(fragments).arg)
             \o << Head(fragments).sep >> \o Text(Tail(fragments))

\* the symbols that hold one of the texts startServices looks for:
\* "already in use", "Conflict", "container name",
\* "is already in use by container"
MarkedSymbols ==
    { "Conflict", "The container name", "already in use by container",
      "address already in use" }

\* the outputs of a failure that is no conflict: progress lines and paths
Unmarked(fragments) ==
    \A i \in 1..Len(fragments) : fragments[i].kind \in { "progress", "path" }

\* a test that takes every output for a conflict
EveryOutputMarked(outputStr) == TRUE

\* startServices: strings.Contains(outputStr, "already in use") || ...
HasConflictMarker(outputStr) ==
    \E i \in 1..Len(outputStr) : outputStr[i] \in MarkedSymbols

\* the combined output of a failed `up`: the fragments, and then the
\* daemon's word for a name that is taken or for a port that is busy
UpText(outcome, output) ==
    Text(output) \o ( IF outcome = "name" THEN << "Conflict" >>
                      ELSE IF outcome = "port" THEN << "address already in use" >>
                      ELSE << >> )

\* the outcomes of `up -d --build --force-recreate --remove-orphans`: a
\* container the project does not own holds a needed name (conflict);
\* otherwise success, a busy port (its message holds "already in use"), or
\* a failure without any conflict marker
UpOutcomes(d) ==
    IF d.need \in d.containers THEN { "name" } ELSE { "ok", "port", "other" }

\* startServices: one `up` attempt and the test of its output;
\* aggressiveContainerCleanup begins with extractConflictingContainerName,
\* whose result depends on the wording of the output
ComposeUp(outcome, output) ==
    /\ docker.pc = "up"
    /\ outcome \in UpOutcomes(docker)
    /\ outcome = "ok" => output = << >>
    /\ outcome = "other" => Unmarked(output)
    /\ docker' =
         IF outcome = "ok"
         THEN [docker EXCEPT !.pc = "list",
                             !.trace = Append(@, "up:ok")]
         ELSE IF ~HasConflictMarker(UpText(outcome, output))
         THEN [docker EXCEPT !.pc = "done",
                             !.cause = outcome,
                             !.output = output,
                             !.err = "docker compose up failed",
                             !.trace = Append(@, "up:failed")]
         ELSE [docker EXCEPT !.pc = "specific",
                             !.cause = outcome,
                             !.output = output,
                             !.extracted = extractConflictingContainerName(UpText(outcome, output)),
                             !.trace = Append(@, "up:conflict")]
    /\ DockerOnly

\* aggressiveContainerCleanup: `docker rm -f containerName` when a name was
\* extracted; on success return nil, else fall to the pattern sweep
RemoveSpecific(rmOk) ==
    /\ docker.pc = "specific"
    /\ docker' =
         IF docker.extracted = EmptyStr
         THEN [docker EXCEPT !.pc = "pattern", !.output = << >>]
         ELSE IF rmOk
         THEN NextAttempt([docker EXCEPT !.containers = @ \ {docker.extracted},
                                         !.output = << >>,
                                         !.trace = Append(@, "specific")])
         ELSE [docker EXCEPT !.pc = "pattern",
                             !.output = << >>,
                             !.trace = Append(@, "specific")]
    /\ DockerOnly

\* aggressiveContainerCleanup: cleanupContainersByPattern(projectName)
PatternSweep(listOk) ==
    /\ docker.pc = "pattern"
    /\ \E removed \in Removable(docker.containers,
                                { c \in ContainerSpace : MatchesPattern(c, projectName) },
                                listOk) :
        docker' = [docker EXCEPT !.pc = "similar",
                                 !.containers = @ \ removed,
                                 !.trace = Append(@, "pattern")]
    /\ DockerOnly

\* aggressiveContainerCleanup: cleanupSimilarContainers(projectName), whose
\* error startServices only logs
SimilarSweep(listOk) ==
    /\ docker.pc = "similar"
    /\ \E removed \in Removable(docker.containers,
                                { c \in ContainerSpace : MatchesSimilar(c, projectName) },
                                listOk) :
        docker' = NextAttempt([docker EXCEPT !.containers = @ \ removed,
                                             !.trace = Append(@, "similar")])
    /\ DockerOnly

\* getServices: the services `ps --services` prints
ServicesListed == << "web" >>

\* Deploy: what it returns after startServices returned nil
DeployReturnStrict(listOk) ==
    IF listOk
    THEN [ services |-> ServicesListed, err |-> "" ]
    ELSE [ services |-> << >>, err |-> "could not get services list" ]

DeployReturn(listOk) ==
    IF listOk
    THEN [ services |-> ServicesListed, err |-> "" ]
    ELSE [ services |-> << "unknown" >>, err |-> "" ]

\* Deploy: getServices and the return
GetServices(listOk) ==
    /\ docker.pc = "list"
    /\ docker' = [docker EXCEPT !.pc = "done",
                                !.listFailed = ~listOk,
                                !.services = DeployReturn(listOk).services,
                                !.err = DeployReturn(listOk).err]
    /\ DockerOnly

(* ------------------------------ GitService ---------------------------- *)

\* a second configured branch of app
Staging == <<"staging">>

\* the concurrent SetupRepository calls, one per branch of app
GitCallers == { Main, Staging }

\* filepath.Dir
Dir(path) == SubSeq(path, 1, Len(path) - 2)

\* the paths ensureRepositorySafety is called with
SafetyPaths ==
    { RepoPath(WorkDir, AppName, b) : b \in GitCallers } \cup { Dir(RepoPath(WorkDir, AppName, Main)) }

\* a goroutine that has not called SetupRepository yet.  pc: its place in
\* SetupRepository; epc/epath: its place in ensureRepositorySafety and the
\* argument; cpc: its place in executeGitCommand; runs, first, last,
\* repaired, cerr: the current command's executions, their first and last
\* outcome, whether the safety action ran between them, and its result
IdleCaller ==
    [ pc |-> "idle", exists |-> FALSE, epc |-> "none", epath |-> EmptyStr,
      cpc |-> "none", runs |-> 0, first |-> "", last |-> "",
      repaired |-> FALSE, cerr |-> "", err |-> "" ]

\* appliedSafety: the package-level map; actions: how often the block of
\* ensureRepositorySafety after the check has run for a path
IdleGit ==
    [ appliedSafety |-> {},
      actions       |-> [ path \in SafetyPaths |-> 0 ],
      call          |-> [ b \in GitCallers |-> IdleCaller ] ]

\* the working copies exist or not
GitSpace ==
    { [ IdleGit EXCEPT !.call = [ b \in GitCallers |-> [ IdleCaller EXCEPT !.exists = e[b] ] ] ] :
        e \in [ GitCallers -> BOOLEAN ] }

\* an action of GitService leaves the rest of the program alone
GitOnly == UNCHANGED <<env, fs, orch, proc, shutdown, docker, probe, units>>

\* a call of ensureRepositorySafety(path)
EnsureStart(c, path) == [c EXCEPT !.epc = "check", !.epath = path]

\* GitService.hasAppliedSafety
hasAppliedSafety(repoPath) == repoPath \in git.appliedSafety

\* ensureRepositorySafety: `if g.hasAppliedSafety(repoPath) { return nil }`
EnsureCheck(b) ==
    /\ git.call[b].epc = "check"
    /\ git' = [git EXCEPT !.call[b].epc =
                 IF hasAppliedSafety(git.call[b].epath) THEN "none" ELSE "act"]
    /\ GitOnly

\* ensureRepositorySafety: git config safe.directory and, as root, the chown
\* of the grandparent, the parent and the path
EnsureAct(b) ==
    /\ git.call[b].epc = "act"
    /\ git' = [git EXCEPT !.call[b].epc = "mark",
                          !.call[b].repaired = @ \/ git.call[b].cpc = "repair",
                          !.actions[git.call[b].epath] = @ + 1]
    /\ GitOnly

\* GitService.markSafetyApplied, and the return
EnsureMark(b) ==
    /\ git.call[b].epc = "mark"
    /\ git' = [git EXCEPT !.call[b].epc = "none",
                          !.appliedSafety = @ \cup { git.call[b].epath }]
    /\ GitOnly

\* GitService.SetupRepository(repo, branch, repoPath)
SetupRepositoryBegin(b) ==
    /\ git.call[b].pc = "idle"
    /\ git' = [git EXCEPT !.call[b] =
                 EnsureStart([@ EXCEPT !.pc = "ensured"], RepoPath(WorkDir, AppName, b))]
    /\ GitOnly

\* SetupRepository: os.Stat(repoPath); cloneRepository up to its first
\* ensureRepositorySafety, or updateRepository up to its first command
StatRepoPath(b, mkdirOk) ==
    /\ git.call[b].pc = "ensured"
    /\ git.call[b].epc = "none"
    /\ git' = [git EXCEPT !.call[b] =
                 IF @.exists
                 THEN [@ EXCEPT !.pc = "fetch", !.cpc = "run"]
                 ELSE IF mkdirOk
                 THEN EnsureStart([@ EXCEPT !.pc = "parent"],
                                  Dir(RepoPath(WorkDir, AppName, b)))
                 ELSE [@ EXCEPT !.pc = "done", !.err = "failed to create directory"]]
    /\ GitOnly

\* cloneRepository: `git clone`, run directly
Clone(b, ok) ==
    /\ git.call[b].pc = "parent"
    /\ git.call[b].epc = "none"
    /\ git' = [git EXCEPT !.call[b] =
                 IF ok
                 THEN EnsureStart([@ EXCEPT !.pc = "cloned", !.exists = TRUE],
                                  RepoPath(WorkDir, AppName, b))
                 ELSE [@ EXCEPT !.pc = "done", !.err = "git clone failed"]]
    /\ GitOnly

\* cloneRepository: the return after the last ensureRepositorySafety
CloneReturn(b) ==
    /\ git.call[b].pc = "cloned"
    /\ git.call[b].epc = "none"
    /\ git' = [git EXCEPT !.call[b].pc = "done"]
    /\ GitOnly

\* updateRepository: what follows the return of executeGitCommand
CommandReturn(c, outcome) ==
    LET e == IF outcome = "ok" THEN "" ELSE "git command failed"
        r == [c EXCEPT !.cpc = "none", !.last = outcome, !.cerr = e]
    IN  IF c.pc = "fetch"
        THEN IF e # "" THEN [r EXCEPT !.pc = "done", !.err = "fetch failed"]
             ELSE [r EXCEPT !.pc = "reset", !.cpc = "run"]
        ELSE IF c.pc = "reset"
        THEN IF e # "" THEN [r EXCEPT !.pc = "done", !.err = "reset failed"]
             ELSE [r EXCEPT !.pc = "clean", !.cpc = "run"]
        ELSE [r EXCEPT !.pc = "done"]

\* the outcomes of a git command: success, failure whose output holds
\* "dubious ownership", any other failure
GitOutcomes == { "ok", "dubious", "other" }

\* executeGitCommand: the first execution; on "dubious ownership" the call
\* of ensureRepositorySafety(workDir)
RunGit(b, outcome) ==
    /\ git.call[b].cpc = "run"
    /\ LET c == [git.call[b] EXCEPT !.runs = 1, !.first = outcome,
                                    !.last = outcome, !.repaired = FALSE]
       IN  git' = [git EXCEPT !.call[b] =
                     IF outcome = "dubious"
                     THEN EnsureStart([c EXCEPT !.cpc = "repair"],
                                      RepoPath(WorkDir, AppName, b))
                     ELSE CommandReturn(c, outcome)]
    /\ GitOnly

\* executeGitCommand: the second execution and the return
RetryGit(b, outcome) ==
    /\ git.call[b].cpc = "repair"
    /\ git.call[b].epc = "none"
    /\ git' = [git EXCEPT !.call[b] =
                 CommandReturn([@ EXCEPT !.runs = 2], outcome)]
    /\ GitOnly

(* --------------- RepositoryService.IsRepositoryInitialized ------------ *)

\* the states a working copy can be put in from outside the program
WorkingCopies ==
    { w \in [ dir : BOOLEAN, git : BOOLEAN, compose : ComposeStates ] :
        w.dir \/ (~w.git /\ w.compose = "none") }

\* no call made yet; afterwards the last call's arguments and result and
\* those of the call before it
NoCall == [ name |-> EmptyStr, branch |-> EmptyStr, result |-> FALSE ]
IdleProbe == [ last |-> NoCall, prev |-> NoCall ]

\* a caller asks rs.IsRepositoryInitialized(repoName, branch)
Probe(repoName, branch) ==
    /\ probe' = [ last |-> [ name   |-> repoName,
                             branch |-> branch,
                             result |-> IsRepositoryInitialized(rsConfig, fs, repoName, branch) ],
                  prev |-> probe.last ]
    /\ UNCHANGED <<env, fs, orch, proc, shutdown, docker, git, units>>

\* manual intervention or a concurrent cleanup changes a working copy
OutOfBand(path, w) ==
    /\ fs' = [fs EXCEPT ![path] = w]
    /\ UNCHANGED <<env, orch, proc, aside>>

(* ----------------- WebhookHandler.testSSHConnection ------------------- *)

SshOnly ==
    UNCHANGED <<env, fs, orch, proc, shutdown, docker, git, probe, configFile, naming,
                dwc, locks>>

\* <-ctx.Done() is ready
CtxDone(t) == t.elapsed >= DeadlineSeconds

\* a delay that does not grow with the attempt
DelayFlat(attempt) == baseDelay

\* delay := baseDelay * time.Duration(attempt)
Delay(attempt) == baseDelay * attempt

\* executeDeployment: ctx, cancel := context.WithTimeout(...);
\* testSSHConnection: attempt := 1
ExecuteDeploymentBegin ==
    /\ sshTest.pc = "idle"
    /\ sshTest' = [sshTest EXCEPT !.pc = "head", !.attempt = 1]
    /\ SshOnly

\* the select at the head of the loop: the cancellation error, or the call
\* of gitService.TestSSHConnection()
LoopHead ==
    /\ sshTest.pc = "head"
    /\ sshTest' = IF CtxDone(sshTest)
                  THEN [sshTest EXCEPT !.pc = "failed", !.err = "SSH test cancelled"]
                  ELSE [sshTest EXCEPT !.pc = "test"]
    /\ SshOnly

\* gitService.TestSSHConnection() returns after d seconds: nil returns nil;
\* an error before the last attempt leads to the wait, on the last attempt
\* to the end of the loop and the aggregated error
TestReturn(ok, d) ==
    /\ sshTest.pc = "test"
    /\ LET t == [sshTest EXCEPT !.elapsed = @ + d, !.results = Append(@, ok)]
       IN  sshTest' =
             IF ok THEN [t EXCEPT !.pc = "passed"]
             ELSE IF t.attempt < maxRetries THEN [t EXCEPT !.pc = "wait"]
             ELSE [t EXCEPT !.pc = "failed", !.attempt = @ + 1,
                            !.err = "SSH connection test failed after 3 attempts"]
    /\ SshOnly

\* the select between <-ctx.Done() and <-time.After(delay): the channel that
\* is ready first; when both are ready at once either
Wait(timerFirst) ==
    /\ sshTest.pc = "wait"
    /\ LET fire == sshTest.elapsed + Delay(sshTest.attempt)
           cancelled == [sshTest EXCEPT
                           !.pc = "failed",
                           !.elapsed = IF @ < DeadlineSeconds THEN DeadlineSeconds ELSE @,
                           !.err = "SSH test cancelled during retry"]
           continue == [sshTest EXCEPT
                           !.pc = "head",
                           !.elapsed = fire,
                           !.waits = Append(@, Delay(sshTest.attempt)),
                           !.attempt = @ + 1]
       IN  sshTest' = IF DeadlineSeconds < fire THEN cancelled
                      ELSE IF DeadlineSeconds = fire /\ ~timerFirst THEN cancelled
                      ELSE continue
    /\ SshOnly

\* executeDeployment: testSSHConnection returned an error:
\* return {"stage": "ssh_test"}, err
ReturnSshFailure ==
    /\ sshTest.pc = "failed"
    /\ sshTest' = [sshTest EXCEPT !.pc = "returned", !.stage = "ssh_test"]
    /\ SshOnly

\* executeDeployment: testSSHConnection returned nil: applyGitSafetyFixes,
\* then deployWithContext, whose goroutine calls DeployDirect
DeployWithContext ==
    /\ sshTest.pc = "passed"
    /\ sshTest' = [sshTest EXCEPT !.pc = "deploying", !.deployed = TRUE]
    /\ SshOnly

(* -------------------- WebhookHandler.deployWithContext ---------------- *)

\* make(chan error, 1) and make(chan string, 10)
resultCap == 1
progressCap == 10

\* a channel made without a buffer
MakeUnbuffered(capacity) == [ buf |-> << >>, cap |-> 0, closed |-> FALSE ]

\* make(chan T, capacity)
MakeChan(capacity) == [ buf |-> << >>, cap |-> capacity, closed |-> FALSE ]

\* a send on ch proceeds: the buffer has room
CanSend(ch) == Len(ch.buf) < ch.cap

\* a receive on ch proceeds: a value is buffered, or ch is closed
CanReceive(ch) == ch.buf # << >> \/ ch.closed

\* the value received from ch: the oldest buffered one, the zero value once
\* ch is closed and drained
Received(ch, zero) == IF ch.buf # << >> THEN Head(ch.buf) ELSE zero

\* the errors DeployDirect returns; "" stands for nil
DeployDirectResults ==
    { "", "deployment already in progress", "auto-initialization failed",
      "repository validation failed", "repository update failed",
      "docker-compose file not found after update", "docker deployment failed" }

DwcOnly ==
    UNCHANGED <<env, fs, orch, proc, shutdown, docker, git, probe, configFile, naming,
                sshTest, locks>>

\* <-ctx.Done() is ready: the deadline of executeDeployment's context passed
DeadlinePassed(d) == d.elapsed >= DeadlineTicks

\* resultChan := make(chan error, 1); progressChan := make(chan string, 10);
\* go func() { ... }(); ticker := time.NewTicker(30 * time.Second)
MakeChannels ==
    /\ dwc.hpc = "idle"
    /\ dwc' = [dwc EXCEPT !.hpc = "select",
                          !.gpc = "progress",
                          !.resultChan = MakeChan(resultCap),
                          !.progressChan = MakeChan(progressCap)]
    /\ DwcOnly

\* the goroutine: progressChan <- "Starting deployment"
GoSendProgress ==
    /\ dwc.gpc = "progress"
    /\ CanSend(dwc.progressChan)
    /\ dwc' = [dwc EXCEPT !.gpc = "deploy",
                          !.progressChan.buf = Append(@, "Starting deployment")]
    /\ DwcOnly

\* a ticker period goes by while DeployDirect runs
Elapse ==
    /\ dwc.gpc = "deploy"
    /\ ~DeadlinePassed(dwc)
    /\ dwc' = [dwc EXCEPT !.elapsed = @ + 1, !.tick = TRUE]
    /\ DwcOnly

\* the goroutine: err := h.deploymentService.DeployDirect(repo, branch)
GoDeployDirect(result) ==
    /\ dwc.gpc = "deploy"
    /\ dwc' = [dwc EXCEPT !.gpc = "result", !.derr = result]
    /\ DwcOnly

\* DeployDirect panics: the deferred closes run, then the process ends
GoPanic ==
    /\ dwc.gpc = "deploy"
    /\ dwc' = [dwc EXCEPT !.gpc = "closeProgress", !.panicking = TRUE]
    /\ DwcOnly

\* the goroutine: resultChan <- err
GoSendResult ==
    /\ dwc.gpc = "result"
    /\ CanSend(dwc.resultChan)
    /\ dwc' = [dwc EXCEPT !.gpc = "closeProgress",
                          !.resultChan.buf = Append(@, dwc.derr)]
    /\ DwcOnly

\* defer close(progressChan): registered last, run first
GoCloseProgress ==
    /\ dwc.gpc = "closeProgress"
    /\ dwc' = [dwc EXCEPT !.gpc = "closeResult", !.progressChan.closed = TRUE]
    /\ DwcOnly

\* defer close(resultChan); the goroutine is over
GoCloseResult ==
    /\ dwc.gpc = "closeResult"
    /\ dwc' = [dwc EXCEPT !.gpc = IF dwc.panicking THEN "crashed" ELSE "exited",
                          !.resultChan.closed = TRUE]
    /\ DwcOnly

\* select: case <-ctx.Done(): return fmt.Errorf("deployment timeout: %v", ctx.Err())
SelectCtxDone ==
    /\ dwc.hpc = "select"
    /\ dwc.gpc # "crashed"
    /\ DeadlinePassed(dwc)
    /\ dwc' = [dwc EXCEPT !.hpc = "returned", !.ret = "deployment timeout"]
    /\ DwcOnly

\* select: case progress := <-progressChan: logged unless it is ""
SelectProgress ==
    /\ dwc.hpc = "select"
    /\ dwc.gpc # "crashed"
    /\ CanReceive(dwc.progressChan)
    /\ dwc' = IF Received(dwc.progressChan, "") # ""
              THEN [dwc EXCEPT !.progressChan.buf = Tail(@),
                               !.logged = Append(@, Received(dwc.progressChan, ""))]
              ELSE dwc
    /\ DwcOnly

\* select: case <-ticker.C: "Deployment still in progress..."
SelectTicker ==
    /\ dwc.hpc = "select"
    /\ dwc.gpc # "crashed"
    /\ dwc.tick
    /\ dwc' = [dwc EXCEPT !.tick = FALSE,
                          !.logged = Append(@, "Deployment still in progress...")]
    /\ DwcOnly

\* select: case err := <-resultChan: return err
SelectResult ==
    /\ dwc.hpc = "select"
    /\ dwc.gpc # "crashed"
    /\ CanReceive(dwc.resultChan)
    /\ dwc' = [dwc EXCEPT !.hpc = "returned",
                          !.ret = Received(dwc.resultChan, ""),
                          !.resultChan.buf = IF @ = << >> THEN @ ELSE Tail(@)]
    /\ DwcOnly

(* ---------------- the locks of the DeploymentService ------------------ *)

\* the goroutines calling DeployDirect, and those calling GetDeploymentStats,
\* GetActiveJobs and Shutdown
Callers == { "deploy1", "deploy2" }
StatsThread == "stats"
ActiveThread == "active"
ShutdownThread == "shutdown"
Threads == Callers \cup { StatsThread, ActiveThread, ShutdownThread }
NoThread == "none"

\* the keys the callers deploy
LockKeys == { JobKey(AppName, Main), JobKey(ApiName, Main) }

\* a sync.RWMutex: the goroutine holding it for writing, those holding it
\* for reading, and those inside Lock()
NewRWMutex == [ w |-> NoThread, r |-> {}, q |-> {} ]

\* Lock() is called: readers arriving from now on wait
RequestLock(mu, t) == [mu EXCEPT !.q = @ \cup {t}]

\* Lock() returns: no goroutine holds the mutex in either mode
CanLockRW(mu, t) == t \in mu.q /\ mu.w = NoThread /\ mu.r = {}

LockRW(mu, t) == [mu EXCEPT !.w = t, !.q = @ \ {t}]

\* RLock() returns: no writer holds the mutex and none is inside Lock()
CanRLock(mu) == mu.w = NoThread /\ mu.q = {}

RLock(mu, t) == [mu EXCEPT !.r = @ \cup {t}]

RUnlock(mu, t) == [mu EXCEPT !.r = @ \ {t}]

Unlock(mu, t) == [mu EXCEPT !.w = NoThread]

\* t holds mu, in either mode
Holds(mu, t) == mu.w = t \/ t \in mu.r

\* a DeployDirect that unlocks activeJobsMu with a defer
UnlockDeferred(mu, t) == mu

\* DeployDirect: ds.activeJobsMu.Unlock() straight after the test-and-set
UnlockAfterMark(mu, t) == Unlock(mu, t)

IdleThread ==
    [ pc       |-> "idle",
      key      |-> << >>,
      admitted |-> FALSE,
      acquired |-> FALSE,     \* this call has held the build mutex
      next     |-> "",        \* where the call goes on after counting
      err      |-> "",
      calls    |-> 0 ]

LocksOnly ==
    UNCHANGED <<env, fs, orch, proc, shutdown, docker, git, probe, configFile, naming,
                sshTest, dwc>>

\* thread t moves to pc
Goto(t, pc) == [locks EXCEPT !.th[t].pc = pc]

\* DeployDirect(repo, branch) is called
CallDeployDirect(t, key) ==
    /\ t \in Callers
    /\ locks.th[t].pc \in { "idle", "returned" }
    /\ locks.th[t].calls < MaxCalls
    /\ locks' = [locks EXCEPT !.th[t] = [IdleThread EXCEPT !.pc = "dd_lock",
                                                           !.key = key,
                                                           !.calls = locks.th[t].calls + 1]]
    /\ LocksOnly

\* ds.activeJobsMu.Lock() is entered, before the test-and-set and in the defer
RequestActiveJobsMu(t) ==
    /\ t \in Callers
    /\ locks.th[t].pc \in { "dd_lock", "dd_defer" }
    /\ locks' = [locks EXCEPT
            !.activeJobsMu = RequestLock(@, t),
            !.th[t].pc = IF locks.th[t].pc = "dd_lock" THEN "dd_locking" ELSE "dd_deferring"]
    /\ LocksOnly

\* ds.activeJobsMu.Lock() returns
LockActiveJobsMu(t) ==
    /\ t \in Callers
    /\ locks.th[t].pc \in { "dd_locking", "dd_deferring" }
    /\ CanLockRW(locks.activeJobsMu, t)
    /\ locks' = [locks EXCEPT
            !.activeJobsMu = LockRW(@, t),
            !.th[t].pc = IF locks.th[t].pc = "dd_locking" THEN "dd_check" ELSE "dd_delete"]
    /\ LocksOnly

\* if ds.activeJobs[jobKey] { Unlock; return error }; ds.activeJobs[jobKey] = true; Unlock
CheckAndMark(t) ==
    /\ t \in Callers
    /\ locks.th[t].pc = "dd_check"
    /\ locks' =
         IF IsActive(locks.activeJobs, locks.th[t].key)
         THEN [locks EXCEPT !.activeJobsMu = Unlock(@, t),
                            !.th[t].pc = "returned",
                            !.th[t].err = "deployment already in progress"]
         ELSE [locks EXCEPT !.activeJobsMu = UnlockAfterMark(@, t),
                            !.activeJobs = MarkActive(@, locks.th[t].key),
                            !.th[t].pc = "dd_isinit",
                            !.th[t].admitted = TRUE]
    /\ LocksOnly

\* IsRepositoryInitialized, and InitializeRepository when it says no: the git
\* commands return, with success or not
AutoInit(t, initialized, ok) ==
    /\ t \in Callers
    /\ locks.th[t].pc = "dd_isinit"
    /\ locks' = IF initialized \/ ok
                THEN [locks EXCEPT !.th[t].pc = "m_lock", !.th[t].next = "es_lock"]
                ELSE [locks EXCEPT !.th[t].pc = "m_lock", !.th[t].next = "dd_defer",
                                   !.th[t].err = "auto-initialization failed"]
    /\ LocksOnly

\* ds.metricsMu.Lock() is entered
RequestMetricsMu(t) ==
    /\ t \in Callers
    /\ locks.th[t].pc = "m_lock"
    /\ locks' = [locks EXCEPT !.metricsMu = RequestLock(@, t), !.th[t].pc = "m_locking"]
    /\ LocksOnly

\* ds.metricsMu.Lock() returns
LockMetricsMu(t) ==
    /\ t \in Callers
    /\ locks.th[t].pc = "m_locking"
    /\ CanLockRW(locks.metricsMu, t)
    /\ locks' = [locks EXCEPT !.metricsMu = LockRW(@, t), !.th[t].pc = "m_count"]
    /\ LocksOnly

\* ds.failedJobs++, ds.totalJobs++ or ds.completedJobs++; ds.metricsMu.Unlock()
CountAndUnlock(t) ==
    /\ t \in Callers
    /\ locks.th[t].pc = "m_count"
    /\ locks' = [locks EXCEPT !.metricsMu = Unlock(@, t),
                              !.th[t].pc = locks.th[t].next]
    /\ LocksOnly

\* executeSmartDeployment: ds.buildMutex.Lock()
LockBuildMutex(t) ==
    /\ t \in Callers
    /\ locks.th[t].pc = "es_lock"
    /\ locks.buildMutex = NoThread
    /\ locks' = [locks EXCEPT !.buildMutex = t,
                              !.th[t].pc = "es_run",
                              !.th[t].acquired = TRUE]
    /\ LocksOnly

\* the body of executeSmartDeployment: its git and docker commands return
ExecuteSmartDeployment(t, ok) ==
    /\ t \in Callers
    /\ locks.th[t].pc = "es_run"
    /\ locks' = [locks EXCEPT !.th[t].pc = "es_unlock",
                              !.th[t].err = IF ok THEN "" ELSE "docker deployment failed"]
    /\ LocksOnly

\* an executeSmartDeployment that unlocks the build mutex at its last line only
UnlockAtEnd(l, t) == IF l.th[t].err = "" THEN NoThread ELSE l.buildMutex

\* defer ds.buildMutex.Unlock(): run on every return of executeSmartDeployment
UnlockOnReturn(l, t) == NoThread

\* executeSmartDeployment returns; DeployDirect goes on to count the outcome
UnlockBuildMutex(t) ==
    /\ t \in Callers
    /\ locks.th[t].pc = "es_unlock"
    /\ locks' = [locks EXCEPT !.buildMutex = UnlockOnReturn(locks, t),
                              !.th[t].pc = "m_lock",
                              !.th[t].next = "dd_defer"]
    /\ LocksOnly

\* the deferred func: delete(ds.activeJobs, jobKey); ds.activeJobsMu.Unlock()
DeleteAndUnlock(t) ==
    /\ t \in Callers
    /\ locks.th[t].pc = "dd_delete"
    /\ locks' = [locks EXCEPT !.activeJobsMu = Unlock(@, t),
                              !.activeJobs = DeleteJob(@, locks.th[t].key),
                              !.th[t].pc = "returned"]
    /\ LocksOnly

\* GetDeploymentStats: ds.metricsMu.RLock(); defer ds.metricsMu.RUnlock()
StatsRLockMetrics ==
    /\ locks.th[StatsThread].pc \in { "idle", "returned" }
    /\ locks.th[StatsThread].calls < MaxCalls
    /\ CanRLock(locks.metricsMu)
    /\ locks' = [locks EXCEPT !.metricsMu = RLock(@, StatsThread),
                              !.th[StatsThread].pc = "s_active",
                              !.th[StatsThread].calls = @ + 1]
    /\ LocksOnly

\* GetDeploymentStats: ds.activeJobsMu.RLock(), inside the other
StatsRLockActiveJobs ==
    /\ locks.th[StatsThread].pc = "s_active"
    /\ CanRLock(locks.activeJobsMu)
    /\ locks' = [Goto(StatsThread, "s_count") EXCEPT
                    !.activeJobsMu = RLock(@, StatsThread)]
    /\ LocksOnly

\* activeCount := len(ds.activeJobs); ds.activeJobsMu.RUnlock()
StatsRUnlockActiveJobs ==
    /\ locks.th[StatsThread].pc = "s_count"
    /\ locks' = [Goto(StatsThread, "s_return") EXCEPT
                    !.activeJobsMu = RUnlock(@, StatsThread)]
    /\ LocksOnly

\* return map[string]interface{}{...}; the deferred ds.metricsMu.RUnlock()
StatsReturn ==
    /\ locks.th[StatsThread].pc = "s_return"
    /\ locks' = [Goto(StatsThread, "returned") EXCEPT
                    !.metricsMu = RUnlock(@, StatsThread)]
    /\ LocksOnly

\* GetActiveJobs: ds.activeJobsMu.RLock()
GetActiveJobsRLock ==
    /\ locks.th[ActiveThread].pc \in { "idle", "returned" }
    /\ locks.th[ActiveThread].calls < MaxCalls
    /\ CanRLock(locks.activeJobsMu)
    /\ locks' = [locks EXCEPT !.activeJobsMu = RLock(@, ActiveThread),
                              !.th[ActiveThread].pc = "a_copy",
                              !.th[ActiveThread].calls = @ + 1]
    /\ LocksOnly

\* GetActiveJobs: the keys are copied; the deferred ds.activeJobsMu.RUnlock()
GetActiveJobsReturn ==
    /\ locks.th[ActiveThread].pc = "a_copy"
    /\ locks' = [Goto(ActiveThread, "returned") EXCEPT
                    !.activeJobsMu = RUnlock(@, ActiveThread)]
    /\ LocksOnly

\* Shutdown: for time.Since(start) < timeout { ds.activeJobsMu.RLock() ...
ShutdownRLock ==
    /\ locks.th[ShutdownThread].pc \in { "idle", "poll" }
    /\ locks.elapsed < ShutdownTimeout
    /\ CanRLock(locks.activeJobsMu)
    /\ locks' = [Goto(ShutdownThread, "h_count") EXCEPT
                    !.activeJobsMu = RLock(@, ShutdownThread)]
    /\ LocksOnly

\* activeCount := len(ds.activeJobs); RUnlock; return nil when it is 0,
\* time.Sleep(time.Second) otherwise
ShutdownRUnlock ==
    /\ locks.th[ShutdownThread].pc = "h_count"
    /\ locks' = [Goto(ShutdownThread,
                      IF locks.activeJobs = {} THEN "returned" ELSE "poll") EXCEPT
                    !.activeJobsMu = RUnlock(@, ShutdownThread),
                    !.elapsed = IF locks.activeJobs = {} THEN @ ELSE @ + 1]
    /\ LocksOnly

\* Shutdown: the time is up: return "shutdown timeout exceeded"
ShutdownTimedOut ==
    /\ locks.th[ShutdownThread].pc = "poll"
    /\ locks.elapsed >= ShutdownTimeout
    /\ locks' = [Goto(ShutdownThread, "returned") EXCEPT
                    !.th[ShutdownThread].err = "shutdown timeout exceeded"]
    /\ LocksOnly

(* ------------------------------ idle units ---------------------------- *)

\* no call of deployWithContext is followed
IdleDwc ==
    [ hpc          |-> "idle",     \* the caller of deployWithContext
      ret          |-> "",         \* what deployWithContext returned
      gpc          |-> "none",     \* the goroutine it starts
      derr         |-> "",         \* what DeployDirect returned
      panicking    |-> FALSE,
      resultChan   |-> MakeChan(0),
      progressChan |-> MakeChan(0),
      elapsed      |-> 0,          \* ticker periods since the context was made
      tick         |-> FALSE,      \* ticker.C holds a tick
      logged       |-> << >> ]

\* the three locks free, no call running
IdleLocks ==
    [ activeJobsMu |-> NewRWMutex,
      metricsMu    |-> NewRWMutex,
      buildMutex   |-> NoThread,
      activeJobs   |-> {},
      elapsed      |-> 0,        \* seconds Shutdown has slept
      th           |-> [ t \in Threads |-> IdleThread ] ]

\* the configuration file is not followed
NoFile == << >>

\* no call of executeDeployment is followed
IdleSshTest ==
    [ pc       |-> "idle",
      attempt  |-> 0,
      elapsed  |-> 0,        \* seconds since context.WithTimeout
      results  |-> << >>,    \* of the TestSSHConnection calls made
      waits    |-> << >>,    \* the delays waited out, in seconds
      err      |-> "",
      stage    |-> "",
      deployed |-> FALSE ]   \* deployWithContext called DeployDirect

\* the components a specification of the server leaves at rest
IdleUnits ==
    /\ configFile = NoFile
    /\ naming = NoNaming
    /\ sshTest = IdleSshTest
    /\ dwc = IdleDwc
    /\ locks = IdleLocks

(* ---------------------------- specification --------------------------- *)

RepoNames == {AppName, ApiName, GhostName}
Branches == {Main, FeatureX}

\* the webhook server, with a further caller of DeployDirect
Init ==
    /\ InitServices
    /\ shutdown = IdleShutdown
    /\ docker = IdleDocker
    /\ git = IdleGit
    /\ probe = IdleProbe
    /\ IdleUnits

Next ==
    \/ \E p \in Procs, r \in RequestSpace : Receive(p, r)
    \/ \E p \in Procs : CheckMethod(p)
    \/ \E p \in Procs : ReadBody(p)
    \/ \E p \in Procs : ValidateSecret(p)
    \/ \E p \in Procs : ParseWebhook(p)
    \/ \E p \in Procs : ValidateWebhook(p)
    \/ \E p \in Procs : ValidateRepo(p)
    \/ \E p \in Procs : CheckSSH(p)
    \/ \E p \in Procs : Timeout(p)
    \/ \E p \in Procs, ok \in BOOLEAN : TestSSH(p, ok)
    \/ \E p \in Procs : ApplyGitSafetyFixes(p)
    \/ \E p \in Procs : SpawnDeploy(p)
    \/ \E p \in Procs : AwaitResult(p)
    \/ \E p \in Procs : AwaitTimeout(p)
    \/ \E p \in Procs, n \in RepoNames, b \in Branches : RunDeploy(p, n, b)
    \/ \E p \in Procs : Admit(p)
    \/ \E p \in Procs : CheckInitialized(p)
    \/ \E p \in Procs, gitOk \in BOOLEAN, c \in ComposeStates : AutoInitialize(p, gitOk, c)
    \/ \E p \in Procs : InitFailed(p)
    \/ \E p \in Procs : CountTotal(p)
    \/ \E p \in Procs : LockBuild(p)
    \/ \E p \in Procs : Revalidate(p)
    \/ \E p \in Procs, gitOk \in BOOLEAN, c \in ComposeStates : UpdateRepository(p, gitOk, c)
    \/ \E p \in Procs : VerifyCompose(p)
    \/ \E p \in Procs, ok \in BOOLEAN : DockerDeploy(p, ok)
    \/ \E p \in Procs : DockerCleanup(p)
    \/ \E p \in Procs : UnlockBuild(p)
    \/ \E p \in Procs : CountOutcome(p)
    \/ \E p \in Procs : DeferredDelete(p)
    \/ \E p \in Procs : Panic(p)
    \/ \E p \in Procs : UnwindUnlock(p)
    \/ \E p \in Procs : UnwindDelete(p)
    \/ \E p \in Procs : SendResult(p)
    \/ \E p \in Procs : RunDeployReturn(p)

Spec == Init /\ [][Next]_vars

\* the callers of DeployDirect, without the webhook handler
NextDeploy ==
    \/ \E p \in Procs, n \in RepoNames, b \in Branches : RunDeploy(p, n, b)
    \/ \E p \in Procs : Admit(p)
    \/ \E p \in Procs : CheckInitialized(p)
    \/ \E p \in Procs, gitOk \in BOOLEAN, c \in ComposeStates : AutoInitialize(p, gitOk, c)
    \/ \E p \in Procs : InitFailed(p)
    \/ \E p \in Procs : CountTotal(p)
    \/ \E p \in Procs : LockBuild(p)
    \/ \E p \in Procs : Revalidate(p)
    \/ \E p \in Procs, gitOk \in BOOLEAN, c \in ComposeStates : UpdateRepository(p, gitOk, c)
    \/ \E p \in Procs : VerifyCompose(p)
    \/ \E p \in Procs, ok \in BOOLEAN : DockerDeploy(p, ok)
    \/ \E p \in Procs : DockerCleanup(p)
    \/ \E p \in Procs : UnlockBuild(p)
    \/ \E p \in Procs : CountOutcome(p)
    \/ \E p \in Procs : DeferredDelete(p)
    \/ \E p \in Procs : Panic(p)
    \/ \E p \in Procs : UnwindUnlock(p)
    \/ \E p \in Procs : UnwindDelete(p)
    \/ \E p \in Procs : RunDeployReturn(p)

\* the server shutting down while DeployDirect calls run
NextShutdown ==
    \/ NextDeploy
    \/ ShutdownBegin
    \/ ShutdownPoll
    \/ \E d \in 1..ShutdownTimeout : ShutdownSleep(d)

ShutdownSpec == Init /\ [][NextShutdown]_vars

\* The server of the first configuration, its file changing while it runs
InitReload ==
    /\ Init
    /\ config = MkConfig(TheSecret, TRUE, TRUE, TRUE)

\* the server alone: the webhook handler and the calls it makes
NextServer ==
    \/ \E p \in Procs, r \in RequestSpace : Receive(p, r)
    \/ \E p \in Procs : CheckMethod(p)
    \/ \E p \in Procs : ReadBody(p)
    \/ \E p \in Procs : ValidateSecret(p)
    \/ \E p \in Procs : ParseWebhook(p)
    \/ \E p \in Procs : ValidateWebhook(p)
    \/ \E p \in Procs : ValidateRepo(p)
    \/ \E p \in Procs : CheckSSH(p)
    \/ \E p \in Procs : Timeout(p)
    \/ \E p \in Procs, ok \in BOOLEAN : TestSSH(p, ok)
    \/ \E p \in Procs : ApplyGitSafetyFixes(p)
    \/ \E p \in Procs : SpawnDeploy(p)
    \/ \E p \in Procs : AwaitResult(p)
    \/ \E p \in Procs : AwaitTimeout(p)
    \/ \E p \in Procs : Admit(p)
    \/ \E p \in Procs : CheckInitialized(p)
    \/ \E p \in Procs, gitOk \in BOOLEAN, c \in ComposeStates : AutoInitialize(p, gitOk, c)
    \/ \E p \in Procs : InitFailed(p)
    \/ \E p \in Procs : CountTotal(p)
    \/ \E p \in Procs : LockBuild(p)
    \/ \E p \in Procs : Revalidate(p)
    \/ \E p \in Procs, gitOk \in BOOLEAN, c \in ComposeStates : UpdateRepository(p, gitOk, c)
    \/ \E p \in Procs : VerifyCompose(p)
    \/ \E p \in Procs, ok \in BOOLEAN : DockerDeploy(p, ok)
    \/ \E p \in Procs : DockerCleanup(p)
    \/ \E p \in Procs : UnlockBuild(p)
    \/ \E p \in Procs : CountOutcome(p)
    \/ \E p \in Procs : DeferredDelete(p)
    \/ \E p \in Procs : Panic(p)
    \/ \E p \in Procs : UnwindUnlock(p)
    \/ \E p \in Procs : UnwindDelete(p)
    \/ \E p \in Procs : SendResult(p)

NextReload ==
    \/ NextServer
    \/ \E newConfig \in ReloadSpace : UpdateConfig(newConfig)

ReloadSpec == InitReload /\ [][NextReload]_vars

\* One call of DockerService.Deploy on every runtime of DockerSpace, in a
\* server started with the first configuration and no working copies
InitDocker ==
    /\ InitServices
    /\ config = MkConfig(TheSecret, TRUE, TRUE, TRUE)
    /\ sshReady
    /\ fs = [ path \in Paths |-> Absent ]
    /\ shutdown = IdleShutdown
    /\ docker \in DockerSpace
    /\ git = IdleGit
    /\ probe = IdleProbe
    /\ IdleUnits

NextDocker ==
    \/ DeployBegin
    \/ \E downOk \in BOOLEAN, listOk \in BOOLEAN : StopServices(downOk, listOk)
    \/ \E listOk \in BOOLEAN : ProactiveCleanup(listOk)
    \/ \E outcome \in { "ok", "name", "port", "other" },
          output \in OutputSpace : ComposeUp(outcome, output)
    \/ \E rmOk \in BOOLEAN : RemoveSpecific(rmOk)
    \/ \E listOk \in BOOLEAN : PatternSweep(listOk)
    \/ \E listOk \in BOOLEAN : SimilarSweep(listOk)
    \/ \E listOk \in BOOLEAN : GetServices(listOk)

DockerSpec == InitDocker /\ [][NextDocker]_vars

\* Two goroutines in GitService.SetupRepository for two branches of app
InitGit ==
    /\ InitServices
    /\ shutdown = IdleShutdown
    /\ docker = IdleDocker
    /\ git \in GitSpace
    /\ probe = IdleProbe
    /\ IdleUnits

NextGit ==
    \E b \in GitCallers :
        \/ SetupRepositoryBegin(b)
        \/ EnsureCheck(b)
        \/ EnsureAct(b)
        \/ EnsureMark(b)
        \/ \E mkdirOk \in BOOLEAN : StatRepoPath(b, mkdirOk)
        \/ \E ok \in BOOLEAN : Clone(b, ok)
        \/ CloneReturn(b)
        \/ \E outcome \in GitOutcomes : RunGit(b, outcome)
        \/ \E outcome \in GitOutcomes : RetryGit(b, outcome)

GitSpec == InitGit /\ [][NextGit]_vars

\* Calls of IsRepositoryInitialized while the file system changes
NextProbe ==
    \/ \E repoName \in RepoNames, branch \in Branches : Probe(repoName, branch)
    \/ \E path \in Paths, w \in WorkingCopies : OutOfBand(path, w)

ProbeSpec == Init /\ [][NextProbe]_vars

\* HandleWebhook on the push events of a GitLab server, up to validateWebhook
NextGitLab ==
    \/ \E p \in Procs, r \in GitLabRequestSpace : Receive(p, r)
    \/ \E p \in Procs : CheckMethod(p)
    \/ \E p \in Procs : ReadBody(p)
    \/ \E p \in Procs : ValidateSecret(p)
    \/ \E p \in Procs : ParseWebhook(p)
    \/ \E p \in Procs : ValidateWebhook(p)

GitLabSpec == Init /\ [][NextGitLab]_vars

\* The server started on a configuration file that is rewritten while it runs
InitLoad ==
    /\ InitServices
    /\ \E file \in FileSpace :
          /\ configFile = [ disk |-> file, loaded |-> file, modified |-> FALSE ]
          /\ config = Load(file)
    /\ sshReady
    /\ shutdown = IdleShutdown
    /\ docker = IdleDocker
    /\ git = IdleGit
    /\ probe = IdleProbe
    /\ naming = NoNaming
    /\ sshTest = IdleSshTest
    /\ dwc = IdleDwc
    /\ locks = IdleLocks

NextLoad ==
    \/ NextServer
    \/ \E file \in FileSpace : WriteConfigFile(file)
    \/ WatchConfig

LoadSpec == InitLoad /\ [][NextLoad]_vars

\* One call of executeDeployment up to the call of DeployDirect
InitSsh ==
    /\ InitServices
    /\ config = MkConfig(TheSecret, TRUE, TRUE, TRUE)
    /\ sshReady
    /\ shutdown = IdleShutdown
    /\ docker = IdleDocker
    /\ git = IdleGit
    /\ probe = IdleProbe
    /\ IdleUnits

NextSsh ==
    \/ ExecuteDeploymentBegin
    \/ LoopHead
    \/ \E ok \in BOOLEAN, d \in 0..MaxCallSeconds : TestReturn(ok, d)
    \/ \E timerFirst \in BOOLEAN : Wait(timerFirst)
    \/ ReturnSshFailure
    \/ DeployWithContext

SshSpec == InitSsh /\ [][NextSsh]_vars

\* getProjectName on two pairs of every configuration of NamingSpace
InitNaming ==
    /\ InitServices
    /\ config = MkConfig(TheSecret, TRUE, TRUE, TRUE)
    /\ sshReady
    /\ fs = [ path \in Paths |-> Absent ]
    /\ shutdown = IdleShutdown
    /\ docker = IdleDocker
    /\ git = IdleGit
    /\ probe = IdleProbe
    /\ configFile = NoFile
    /\ sshTest = IdleSshTest
    /\ dwc = IdleDwc
    /\ locks = IdleLocks
    /\ \E repos \in NamingSpace : naming = [NoNaming EXCEPT !.Repositories = repos]

NextNaming ==
    \E i \in 1..2, bi \in 1..2, j \in 1..2, bj \in 1..2 : NameBoth(i, bi, j, bj)

NamingSpec == InitNaming /\ [][NextNaming]_vars

\* One call of deployWithContext, its goroutine and the deadline
InitDwc == InitSsh

NextDwc ==
    \/ MakeChannels
    \/ GoSendProgress
    \/ Elapse
    \/ \E result \in DeployDirectResults : GoDeployDirect(result)
    \/ GoPanic
    \/ GoSendResult
    \/ GoCloseProgress
    \/ GoCloseResult
    \/ SelectCtxDone
    \/ SelectProgress
    \/ SelectTicker
    \/ SelectResult

\* The scheduler runs a goroutine that can take a step, and select chooses
\* at random among the cases that are ready: a case that stays ready is taken.
\* DeployDirect itself need not return.
FairDwc ==
    /\ WF_vars(GoSendProgress)
    /\ WF_vars(GoSendResult)
    /\ WF_vars(GoCloseProgress)
    /\ WF_vars(GoCloseResult)
    /\ WF_vars(SelectCtxDone)
    /\ WF_vars(SelectResult)

DwcSpec == InitDwc /\ [][NextDwc]_vars /\ FairDwc

\* DeployDirect, GetDeploymentStats, GetActiveJobs and Shutdown called
\* concurrently on one DeploymentService
InitLocks == InitSsh

\* the steps a caller of DeployDirect takes once it is called
CallerStep(t) ==
    \/ RequestActiveJobsMu(t)
    \/ LockActiveJobsMu(t)
    \/ CheckAndMark(t)
    \/ \E initialized \in BOOLEAN, ok \in BOOLEAN : AutoInit(t, initialized, ok)
    \/ RequestMetricsMu(t)
    \/ LockMetricsMu(t)
    \/ CountAndUnlock(t)
    \/ LockBuildMutex(t)
    \/ \E ok \in BOOLEAN : ExecuteSmartDeployment(t, ok)
    \/ UnlockBuildMutex(t)
    \/ DeleteAndUnlock(t)

\* the steps of GetDeploymentStats once it holds the metrics lock
StatsStep ==
    \/ StatsRLockActiveJobs
    \/ StatsRUnlockActiveJobs
    \/ StatsReturn

\* the steps of the readers once they hold a lock
ReaderStep ==
    \/ StatsStep
    \/ GetActiveJobsReturn
    \/ ShutdownRUnlock

NextLocks ==
    \/ \E t \in Callers, key \in LockKeys : CallDeployDirect(t, key)
    \/ \E t \in Callers : CallerStep(t)
    \/ StatsRLockMetrics
    \/ GetActiveJobsRLock
    \/ ShutdownRLock
    \/ ShutdownTimedOut
    \/ ReaderStep

LockSpec == InitLocks /\ [][NextLocks]_vars

\* DeployDirect called concurrently, with GetDeploymentStats
NextTermination ==
    \/ \E t \in Callers, key \in LockKeys : CallDeployDirect(t, key)
    \/ \E t \in Callers : CallerStep(t)
    \/ StatsRLockMetrics
    \/ StatsStep

\* The scheduler runs every goroutine that can take a step: a caller whose
\* next step stays possible takes it, and so does GetDeploymentStats. The git
\* and docker commands are steps of the caller, so they return.
FairLocks ==
    /\ \A t \in Callers : WF_vars(CallerStep(t))
    /\ WF_vars(StatsStep)

TerminationSpec == InitLocks /\ [][NextTermination]_vars /\ FairLocks

\* InitializeRepository called on every repository value of InitRepoSpace
NextInitRepo ==
    \/ \E p \in CliProcs, repo \in InitRepoSpace, b \in Branches :
          InitializeRepositoryBegin(p, repo, b)
    \/ \E p \in CliProcs : CheckRepository(p)
    \/ \E p \in CliProcs : CheckBranch(p)
    \/ \E p \in CliProcs, removed \in BOOLEAN : CleanupCorruptedRepository(p, removed)
    \/ \E p \in CliProcs, gitOk \in BOOLEAN, c \in ComposeStates :
          SetupWorkingCopy(p, gitOk, c)
    \/ \E p \in CliProcs : VerifyWorkingCopy(p)

InitRepoSpec == Init /\ [][NextInitRepo]_vars

(* ------------------------------ properties ---------------------------- *)

\* the positions of a DeployDirect call between its admission and its return
Running == { "dd_isinit", "dd_init", "dd_initfail", "dd_total", "es_lock",
             "es_validate", "es_update", "es_compose", "es_docker", "es_cleanup",
             "es_unlock", "es_unwind", "dd_count", "dd_defer", "dd_unwind" }

\* the positions inside executeSmartDeployment, after buildMutex.Lock()
Inside == { "es_validate", "es_update", "es_compose", "es_docker", "es_cleanup",
            "es_unlock", "es_unwind" }

\* the DeployDirect call of p was admitted and has not returned
InFlight(p) == proc[p].admitted /\ proc[p].gpc \in Running

\* the DeployDirect call of p has returned (or died of a panic)
Returned(p) == proc[p].gpc \in {"returned", "exited", "panicked"}

\* C1: when a DeployDirect call makes its test of the active-job set while
\* another call with the same key is admitted and has not returned, it
\* returns "deployment already in progress" in that very step, whoever holds
\* the build mutex, and changes neither the set nor the mutex nor a counter;
\* otherwise it is admitted.  So of the calls with one key that overlap, at
\* most one is admitted at a time.
C1_DuplicateFailsFast ==
    [][ /\ \A p \in Procs :
            (proc[p].gpc = "dd_check" /\ proc'[p].gpc # "dd_check") =>
                IF \E q \in Procs \ {p} : InFlight(q) /\ Key(q) = Key(p)
                THEN /\ proc'[p].gpc = "returned"
                     /\ proc'[p].derr = "deployment already in progress"
                     /\ ~proc'[p].admitted
                     /\ UNCHANGED <<activeJobs, buildMutex, counters>>
                ELSE /\ proc'[p].gpc = "dd_isinit"
                     /\ proc'[p].admitted
        /\ \A p, q \in Procs :
            (InFlight(p)' /\ InFlight(q)' /\ Key(p)' = Key(q)') => p = q
      ]_vars

\* C1 witness: a call was turned away while the call holding its key was
\* inside the build mutex
C1_Witness ==
    \E p, q \in Procs :
        /\ p # q
        /\ proc[p].gpc = "returned"
        /\ ~proc[p].admitted
        /\ proc[p].derr = "deployment already in progress"
        /\ InFlight(q)
        /\ Key(q) = Key(p)
        /\ buildMutex = q

\* C2: the active-job set holds exactly the keys of the admitted calls that
\* have not returned; the key of an admitted call that has returned, on
\* whatever path, is in the set only if another admitted call holds it.
C2_ActiveIffInFlight ==
    /\ activeJobs = { Key(p) : p \in { q \in Procs : InFlight(q) } }
    /\ \A p \in Procs :
        (proc[p].admitted /\ Returned(p)) =>
            \/ Key(p) \notin activeJobs
            \/ \E q \in Procs \ {p} : InFlight(q) /\ Key(q) = Key(p)

\* C2 witness: one admitted call returned after a failed initialization,
\* another died of a panic, and the set is empty
C2_Witness ==
    \E p, q \in Procs :
        /\ p # q
        /\ proc[p].admitted
        /\ proc[p].gpc = "panicked"
        /\ proc[q].admitted
        /\ Returned(q)
        /\ proc[q].derr = "auto-initialization failed"
        /\ activeJobs = {}

\* C3: at most one call is inside executeSmartDeployment, and it is the
\* holder of the build mutex.
C3_OneInsideBuild ==
    /\ \A p, q \in Procs :
        (proc[p].gpc \in Inside /\ proc[q].gpc \in Inside) => p = q
    /\ \A p \in Procs : proc[p].gpc \in Inside <=> buildMutex = p

\* C3 witness: two distinct keys are active, one call is at the docker
\* deployment and the other waits for the build mutex
C3_Witness ==
    \E p, q \in Procs :
        /\ proc[p].gpc = "es_docker"
        /\ proc[q].gpc = "es_lock"
        /\ Key(p) # Key(q)
        /\ {Key(p), Key(q)} \subseteq activeJobs

\* the stages of HandleWebhook, in the order of the code
StageOrder == << "method", "body", "signature", "parse", "ref", "repository",
                 "ssh_ready", "ssh_test" >>

\* the request r is authentic under the secret: its GitHub signature header
\* is the algorithm prefix followed by the hex HMAC of its body, or it has no
\* GitHub header and its GitLab token is the secret
Authentic(secret, r) ==
    LET github == IF r.hub256 # EmptyStr THEN r.hub256 ELSE r.hub
    IN  \/ /\ github # EmptyStr
           /\ \E alg \in {"sha256", "sha1"} :
                github = <<alg, "=">> \o Hex(Hmac(alg, secret, r.body))
        \/ /\ github = EmptyStr
           /\ r.gitlab = secret

\* the repository named name that requests are matched against
Matched(c, name) ==
    { i \in 1..Len(c.Repositories) :
        c.Repositories[i].Name = name /\ c.Repositories[i].Enabled }

\* what lets a request pass the stage, stated on the request and the
\* environment of the step that passes it
StagePassable(p, stage) ==
    CASE stage = "method"     -> proc[p].req.method = "POST"
      [] stage = "body"       -> proc[p].req.readOk /\ proc[p].req.body # << >>
      [] stage = "signature"  -> config.Secret = EmptyStr
                                 \/ Authentic(config.Secret, proc[p].req)
      [] stage = "parse"      -> LET w == Unmarshal(proc[p].req.body)
                                 IN  w.ok /\ w.Name # EmptyStr /\ w.Ref # EmptyStr
      [] stage = "ref"        -> /\ HasPrefix(proc[p].webhook.Ref, RefsHeads)
                                 /\ proc[p].webhook.HeadCommit # EmptyStr
      [] stage = "repository" -> \E i \in Matched(rsConfig, proc[p].webhook.Name) :
                                    /\ rsConfig.Repositories[i].AutoDeploy
                                    /\ \E j \in 1..Len(rsConfig.Repositories[i].Branches) :
                                        rsConfig.Repositories[i].Branches[j] = proc[p].branch
      [] stage = "ssh_ready"  -> sshReady
      [] stage = "ssh_test"   -> ~proc[p].ctxDone /\ proc[p].attempt <= maxRetries
      [] OTHER -> FALSE

\* C4: the stages a request passes are a prefix of the code's order, each
\* passed only when its check holds of the request; DeployDirect is invoked
\* for a request only from the state in which all eight stages were passed,
\* and once; a request that is answered is done: no further stage, no
\* invocation.
C4_StagesBeforeDeploy ==
    [][ \A p \in WebProcs :
          LET old == proc[p].stages
              new == proc'[p].stages
          IN  /\ new = SubSeq(StageOrder, 1, Len(new))
              /\ new # old =>
                    /\ new = Append(old, StageOrder[Len(old) + 1])
                    /\ StagePassable(p, StageOrder[Len(old) + 1])
                    /\ proc[p].calls = 0
              /\ proc'[p].calls # proc[p].calls =>
                    /\ old = StageOrder
                    /\ proc[p].calls = 0
                    /\ proc'[p].calls = 1
              /\ proc'[p].gpc # "none" => proc'[p].calls = 1
              /\ proc[p].pc = "responded" =>
                    /\ proc'[p].pc = "responded"
                    /\ new = old
                    /\ proc'[p].calls = proc[p].calls
                    /\ proc'[p].resp = proc[p].resp
              /\ (proc'[p].pc = "responded" /\ new # StageOrder) =>
                    /\ proc'[p].calls = 0
                    /\ proc'[p].gpc = "none"
      ]_vars

\* C4 witness: a request passed the eight stages and DeployDirect runs for it
C4_Witness ==
    \E p \in WebProcs :
        /\ proc[p].stages = StageOrder
        /\ proc[p].pc = "h_wait"
        /\ proc[p].calls = 1
        /\ proc[p].gpc = "dd_isinit"

\* the request of p carries none of the three signature headers
NoSignatureHeaders(r) ==
    r.hub256 = EmptyStr /\ r.hub = EmptyStr /\ r.gitlab = EmptyStr

\* C5: with a secret configured, the signature stage answers a request that
\* carries none of the three headers with 401 Unauthorized; the request is
\* not parsed and DeployDirect is not invoked for it, then or later.
C5_MissingSignatureUnauthorized ==
    [][ \A p \in WebProcs :
          /\ ( /\ proc[p].pc = "h_secret"
               /\ proc'[p].pc # "h_secret"
               /\ config.Secret # EmptyStr
               /\ NoSignatureHeaders(proc[p].req) ) =>
                    /\ proc'[p].pc = "responded"
                    /\ proc'[p].resp = Resp(401, "failed", "Unauthorized")
                    /\ proc'[p].webhook = BadJSON
                    /\ "parse" \notin { proc'[p].stages[i] : i \in 1..Len(proc'[p].stages) }
                    /\ proc'[p].calls = 0
          /\ proc[p].resp.code = 401 =>
                    /\ proc'[p] = proc[p]
                    /\ proc[p].webhook = BadJSON
                    /\ proc[p].calls = 0
      ]_vars

\* C5 witness: a POST with a body and no signature header was answered 401
C5_Witness ==
    \E p \in WebProcs :
        /\ config.Secret # EmptyStr
        /\ proc[p].pc = "responded"
        /\ proc[p].stages = <<"method", "body">>
        /\ NoSignatureHeaders(proc[p].req)
        /\ proc[p].resp = Resp(401, "failed", "Unauthorized")
        /\ proc[p].calls = 0

\* C6: with a secret configured, a request passes the signature stage only
\* if it is authentic under that secret: a signature over another body or
\* under another secret, and a token that is not the secret, are answered 401.
C6_AcceptsOnlyAuthentic ==
    [][ \A p \in WebProcs :
          ( /\ proc[p].pc = "h_secret"
            /\ proc'[p].pc # "h_secret"
            /\ config.Secret # EmptyStr ) =>
                IF Authentic(config.Secret, proc[p].req)
                THEN proc'[p].pc = "h_parse"
                ELSE /\ proc'[p].pc = "responded"
                     /\ proc'[p].resp = Resp(401, "failed", "Unauthorized")
      ]_vars

\* C6 witness: a token of the secret's length that differs from it in one
\* byte was answered 401
C6_Witness ==
    \E p \in WebProcs :
        /\ config.Secret = TheSecret
        /\ proc[p].pc = "responded"
        /\ proc[p].req.hub256 = EmptyStr
        /\ proc[p].req.hub = EmptyStr
        /\ proc[p].req.gitlab = OtherSecret
        /\ Len(OtherSecret) = Len(TheSecret)
        /\ proc[p].resp.code = 401

\* the request of p was authenticated, parsed and found to be a push of a
\* commit to a branch, and the repository stage has dealt with it
PushDecided(p) ==
    /\ Len(proc[p].stages) >= 5
    /\ SubSeq(proc[p].stages, 1, 5) = SubSeq(StageOrder, 1, 5)
    /\ proc[p].pc # "h_repo"

\* C7, as the specification states it: a push to a branch that the matched
\* auto-deploy repository does not list is answered 200 "ignored", and
\* DeployDirect is not invoked.  The handler answers 404 "failed".
C7_UnlistedBranchIgnored ==
    \A p \in WebProcs :
        ( /\ PushDecided(p)
          /\ \E i \in Matched(rsConfig, proc[p].webhook.Name) :
                /\ rsConfig.Repositories[i].AutoDeploy
                /\ ~IsBranchConfigured(rsConfig.Repositories[i], proc[p].branch) ) =>
            /\ proc[p].pc = "responded"
            /\ proc[p].resp.code = 200
            /\ proc[p].resp.status = "ignored"
            /\ proc[p].calls = 0

C9_MainPushDeploysOnce ==
    \A p \in WebProcs :
        ( /\ proc[p].webhook = Webhook(AppName, Ref(Main), Commit)
          /\ proc[p].stages = StageOrder
          /\ \E i \in Matched(rsConfig, AppName) :
                /\ rsConfig.Repositories[i].AutoDeploy
                /\ rsConfig.Repositories[i].Branches = <<Main>>
          /\ sshReady
          /\ ~proc[p].ctxDone
          /\ ~proc[p].extFail
          /\ proc[p].derr # "deployment already in progress" ) =>
            /\ proc[p].calls <= 1
            /\ proc[p].gpc # "none" =>
                    /\ proc[p].calls = 1
                    /\ Key(p) = <<"app", ":", "main">>
            /\ Returned(p) => proc[p].derr = ""
            /\ proc[p].pc = "responded" =>
                    /\ proc[p].calls = 1
                    /\ proc[p].admitted
                    /\ proc[p].resp = Resp(200, "success", "")

\* C9 witness: such a push, on a working copy that was not cloned yet, was
\* answered 200 "success" after one DeployDirect call for app:main
C9_Witness ==
    \E p \in WebProcs :
        /\ proc[p].webhook = Webhook(AppName, Ref(Main), Commit)
        /\ proc[p].stages = StageOrder
        /\ ~proc[p].extFail
        /\ proc[p].admitted
        /\ Key(p) = <<"app", ":", "main">>
        /\ proc[p].calls = 1
        /\ completedJobs >= 1
        /\ proc[p].pc = "responded"
        /\ proc[p].resp = Resp(200, "success", "")

\* C10: a parsed webhook whose ref does not start with refs/heads/ or whose
\* head commit id is empty is answered 200 "ignored", and DeployDirect is
\* not invoked.
C10_NonPushIgnored ==
    \A p \in WebProcs :
        ( /\ Len(proc[p].stages) >= 4
          /\ SubSeq(proc[p].stages, 1, 4) = SubSeq(StageOrder, 1, 4)
          /\ proc[p].pc # "h_validate"
          /\ \/ ~HasPrefix(proc[p].webhook.Ref, RefsHeads)
             \/ proc[p].webhook.HeadCommit = EmptyStr ) =>
            /\ proc[p].pc = "responded"
            /\ proc[p].resp = Resp(200, "ignored", "")
            /\ proc[p].calls = 0
            /\ proc[p].gpc = "none"

\* C10 witness: a push to a branch without a head commit was answered 200
\* "ignored"
C10_Witness ==
    \E p \in WebProcs :
        /\ proc[p].stages = SubSeq(StageOrder, 1, 4)
        /\ HasPrefix(proc[p].webhook.Ref, RefsHeads)
        /\ proc[p].webhook.HeadCommit = EmptyStr
        /\ proc[p].pc = "responded"
        /\ proc[p].resp = Resp(200, "ignored", "")

\* C11, as the specification states it: DeployDirect is not run for any
\* caller, the webhook handler or runDeploy, while the SSH helper is not
\* ready.  runDeploy makes no readiness check.
C11_NoDeployWithoutSSH ==
    \A p \in Procs : proc[p].calls > 0 => sshReady

\* C17: Shutdown returns nil only on a poll, made before the timeout has
\* elapsed, that finds the active-job set empty, and the timeout error only
\* once the timeout has elapsed; no step of Shutdown changes the active-job
\* set, the build mutex, a counter, or a DeployDirect call.
C17_ShutdownOnlyObserves ==
    [][ shutdown' # shutdown =>
          /\ UNCHANGED <<activeJobs, buildMutex, counters, crashed, fs, proc>>
          /\ shutdown.pc # "done"
          /\ shutdown'.pc = "done" <=> shutdown'.result # ""
          /\ shutdown'.result = "nil" =>
                /\ activeJobs = {}
                /\ shutdown.elapsed < ShutdownTimeout
          /\ shutdown'.result \notin {"", "nil"} =>
                /\ shutdown'.result = "shutdown timeout exceeded"
                /\ shutdown.elapsed >= ShutdownTimeout
      ]_vars

\* C17 witness: Shutdown returned the timeout error while a DeployDirect
\* call was inside the build mutex, its key still in the set
C17_Witness ==
    /\ shutdown.pc = "done"
    /\ shutdown.result = "shutdown timeout exceeded"
    /\ \E p \in Procs :
        /\ InFlight(p)
        /\ buildMutex = p
        /\ Key(p) \in activeJobs

\* the DeployDirect call of p was admitted and has gone past its counting
Counted(p) == proc[p].admitted /\ proc[p].gpc \in {"dd_defer", "returned", "exited"}

\* C15: completedJobs is the number of admitted calls that went on to return
\* nil and failedJobs the number that went on to return an error, whatever
\* the stage of the failure: each admitted call that returns has added one to
\* exactly one of the two.  A step adds at most one to one counter, and a call
\* rejected as a duplicate adds nothing.
C15_OneOutcomeCounted ==
    [][ /\ completedJobs' = Cardinality({ p \in Procs : Counted(p)' /\ proc'[p].derr = "" })
        /\ failedJobs' = Cardinality({ p \in Procs : Counted(p)' /\ proc'[p].derr # "" })
        /\ totalJobs' >= totalJobs
        /\ completedJobs' >= completedJobs
        /\ failedJobs' >= failedJobs
        /\ (totalJobs' + completedJobs' + failedJobs')
                <= (totalJobs + completedJobs + failedJobs) + 1
        /\ \A p \in Procs :
            (proc[p].gpc = "dd_check" /\ proc'[p].gpc = "returned") => UNCHANGED counters
        /\ \A p \in Procs :
            (proc'[p].admitted /\ proc'[p].gpc \in {"returned", "exited"}) => Counted(p)'
      ]_vars

\* C15 witness: one call failed in auto-initialization and another in the
\* docker deployment; both returned and failedJobs is 2
C15_Witness ==
    \E p, q \in Procs :
        /\ proc[p].admitted /\ proc[p].gpc \in {"returned", "exited"}
        /\ proc[p].derr = "auto-initialization failed"
        /\ proc[q].admitted /\ proc[q].gpc \in {"returned", "exited"}
        /\ proc[q].derr = "docker deployment failed"
        /\ failedJobs = 2
        /\ completedJobs = 0

\* the handler of p has answered while its DeployDirect call still runs
Abandoned(p) == p \in WebProcs /\ proc[p].pc = "responded" /\ InFlight(p)

\* C16: a handler that answers while its DeployDirect call still runs does so
\* on the deadline, with a failure, and leaves the call, the active-job set
\* and the build mutex as they are; from then on the key is in the set until
\* that call itself returns, and a call for the same key that makes its test
\* in that window is rejected as already in progress.
C16_DeadlineLeavesCallRunning ==
    [][ \A p \in WebProcs :
          /\ (proc[p].pc # "responded" /\ Abandoned(p)') =>
                /\ proc[p].ctxDone
                /\ proc'[p].resp = Resp(500, "failed", "Deployment failed")
                /\ proc'[p].gpc = proc[p].gpc
                /\ UNCHANGED <<activeJobs, buildMutex, counters>>
          /\ Abandoned(p)' => Key(p) \in activeJobs'
          /\ (Abandoned(p) /\ Key(p) \notin activeJobs') =>
                proc'[p].gpc \in {"returned", "panicked"}
          /\ \A q \in Procs \ {p} :
                ( /\ Abandoned(p)
                  /\ Key(q) = Key(p)
                  /\ proc[q].gpc = "dd_check"
                  /\ proc'[q].gpc # "dd_check" ) =>
                    /\ proc'[q].gpc = "returned"
                    /\ proc'[q].derr = "deployment already in progress"
                    /\ ~proc'[q].admitted
      ]_vars

\* C16 witness: the handler answered 500 on the deadline; its DeployDirect
\* call went on to return nil and the key is cleared; another call for the
\* same key was rejected
C16_Witness ==
    \E p \in WebProcs, q \in Procs :
        /\ p # q
        /\ proc[p].pc = "responded"
        /\ proc[p].ctxDone
        /\ proc[p].resp = Resp(500, "failed", "Deployment failed")
        /\ proc[p].admitted
        /\ proc[p].gpc = "exited"
        /\ proc[p].derr = ""
        /\ Key(p) \notin activeJobs
        /\ Key(q) = Key(p)
        /\ ~proc[q].admitted
        /\ proc[q].derr = "deployment already in progress"

\* ---- DockerService.Deploy ----

\* the `up` attempts a trace records
IsUp(e) == e \in { "up:ok", "up:failed", "up:conflict" }

Ups(trace) == Cardinality({ i \in 1..Len(trace) : IsUp(trace[i]) })

Conflicts(trace) == Cardinality({ i \in 1..Len(trace) : trace[i] = "up:conflict" })

\* the conflict that made the last `up` fail still stands
Unresolved == docker.cause = "port" \/ docker.need \in docker.containers

\* C12: Deploy never makes more than 3 start attempts; a failed attempt is
\* never followed directly by another attempt (conflict cleanup runs in
\* between); and when every attempt failed with a conflict marker, Deploy
\* made exactly 3 attempts and returned the aggregated failure.
C12_ThreeStartAttempts ==
    LET t == docker.trace
    IN  /\ Ups(t) <= 3
        /\ \A i \in 1..(Len(t) - 1) : IsUp(t[i]) => ~IsUp(t[i + 1])
        /\ (docker.pc = "done" /\ Ups(t) > 0 /\ Conflicts(t) = Ups(t)) =>
              /\ Ups(t) = 3
              /\ ~IsUp(t[Len(t)])
              /\ docker.err = "failed to start services after 3 attempts"
        /\ docker.err = "failed to start services after 3 attempts" =>
              Conflicts(t) = 3

C12_Witness ==
    /\ docker.pc = "done"
    /\ Conflicts(docker.trace) = 3
    /\ docker.err = "failed to start services after 3 attempts"

\* C13: a cleanup layer (the pattern sweep after the specific removal, the
\* similar-name sweep after the pattern sweep) runs only while the conflict
\* is still unresolved.
C13_LayersEscalate ==
    [][ /\ (docker.pc = "pattern" /\ docker'.pc # "pattern") => Unresolved
        /\ (docker.pc = "similar" /\ docker'.pc # "similar") => Unresolved ]_vars

\* C14: when an `up` attempt succeeded, Deploy returns no error; when the
\* listing failed it returns the single placeholder entry, else the listing.
C14_StartedMeansSuccess ==
    (docker.pc = "done" /\ \E i \in 1..Len(docker.trace) : docker.trace[i] = "up:ok") =>
        /\ docker.err = ""
        /\ docker.services = IF docker.listFailed THEN << "unknown" >> ELSE ServicesListed

C14_Witness ==
    /\ docker.pc = "done"
    /\ docker.listFailed
    /\ docker.services = << "unknown" >>
    /\ docker.err = ""
    /\ Conflicts(docker.trace) > 0

\* ---- GitService ----

\* C18: a git command is executed at most twice; it is executed a second
\* time only after its first execution failed with "dubious ownership" and
\* the ownership repair was applied to its working directory in between;
\* a command that failed that way returns only after its second execution,
\* and a command returns the error of its last execution.
C18_RepairThenRetryOnce ==
    [][ \A b \in GitCallers :
          LET c == git.call[b]
              d == git'.call[b]
          IN  /\ d.runs <= 2
              /\ (c.runs = 1 /\ d.runs = 2) => (c.first = "dubious" /\ c.repaired)
              /\ (c.cpc \in { "run", "repair" } /\ d # c /\ d.cpc # "repair") =>
                    /\ d.runs = IF d.first = "dubious" THEN 2 ELSE 1
                    /\ d.cerr = IF d.last = "ok" THEN "" ELSE "git command failed" ]_vars

\* C19: the action of ensureRepositorySafety runs at most once for a path,
\* and the applied set never loses a path.
C19_SafetyAppliedOnce ==
    [][ /\ \A path \in SafetyPaths : git'.actions[path] <= 1
        /\ git.appliedSafety \subseteq git'.appliedSafety ]_vars

\* ---- RepositoryService.IsRepositoryInitialized ----

\* the repository is known and enabled and lists the branch
KnownEnabledWithBranch(repoName, branch) ==
    \E i \in 1..Len(rsConfig.Repositories) :
        LET r == rsConfig.Repositories[i]
        IN  /\ r.Name = repoName
            /\ r.Enabled
            /\ \E j \in 1..Len(r.Branches) : r.Branches[j] = branch

\* the working copy's directory, its .git and a compose file that is not
\* empty all exist
CopyComplete(repoName, branch) ==
    LET path == RepoPath(rsConfig.WorkDir, repoName, branch)
    IN  /\ path \in DOMAIN fs
        /\ fs[path].dir
        /\ fs[path].git
        /\ fs[path].compose = "ok"

FirstOfKind(output, kind) ==
    LET hits == { i \in 1..Len(output) : output[i].kind = kind }
    IN  IF hits = {} THEN [ found |-> FALSE, arg |-> EmptyStr ]
        ELSE [ found |-> TRUE,
               arg   |-> output[CHOOSE i \in hits : \A j \in hits : i <= j].arg ]

\* the container an output names, by the priority of its fragments
EmbeddedName(output) ==
    IF FirstOfKind(output, "named").found THEN FirstOfKind(output, "named").arg
    ELSE IF FirstOfKind(output, "progress").found THEN FirstOfKind(output, "progress").arg
    ELSE IF FirstOfKind(output, "path").found THEN FirstOfKind(output, "path").arg
    ELSE IF FirstOfKind(output, "holder").arg = KnownID THEN RedisContainer
    ELSE EmptyStr

\* C21: the name extracted from the output of a failed `up` is the one its
\* highest-priority fragment embeds (the daemon's sentence, then compose's
\* progress line, then the first quoted path, then the holder's id resolved
\* by inspect), empty when it has none; and with an empty name the cleanup
\* goes on to the pattern sweep without removing anything first.
C21_ExtractionByPriority ==
    [][ /\ docker'.pc = "specific" =>
              docker'.extracted = EmbeddedName(docker'.output)
        /\ (docker.pc = "specific" /\ docker.extracted = EmptyStr /\ docker' # docker) =>
              (docker'.pc = "pattern" /\ docker'.containers = docker.containers) ]_vars

C21_Witness ==
    /\ docker.pc = "specific"
    /\ Len(docker.output) = 2
    /\ docker.output[1].kind = "path"
    /\ docker.output[2].kind = "progress"
    /\ docker.extracted = StaleContainer

\* ---- configuration replacement ----

SamePair(p, q) ==
    proc[p].repo.Name = proc[q].repo.Name /\ proc[p].branch = proc[q].branch

\* C23: a DeployDirect call is rejected as already in progress exactly when
\* another call for the same (repository, branch) pair is in flight; calls
\* for other pairs, running or failed, play no part.
C23_OtherPairsAdmitted ==
    [][ \A p \in Procs :
          (proc[p].gpc = "dd_check" /\ proc'[p].gpc # "dd_check") =>
              ( (proc'[p].derr = "deployment already in progress")
                  <=> \E q \in Procs \ {p} : InFlight(q) /\ SamePair(p, q) ) ]_vars

C23_Witness ==
    \E p, q \in Procs :
        /\ InFlight(p)
        /\ InFlight(q)
        /\ ~SamePair(p, q)
        /\ failedJobs > 0

\* C24 (as stated): two distinct (repository, branch) pairs of one
\* configuration never get the same Compose project name from getProjectName.
C24_DistinctProjects ==
    (naming.called /\ naming.a # naming.b) => naming.nameA # naming.nameB

\* C24: without a project_name override the two pairs (my, app-main) and
\* (my-app, main) are both named my-app-main.
C24_DefaultNamesCollide ==
    /\ naming.called
    /\ naming.a = << MyName, AppMainBranch >>
    /\ naming.b = << MyAppName, MainBranch >>
    /\ naming.nameA = naming.nameB
    /\ naming.nameA = MyName \o <<"-">> \o AppMainBranch

\* the repository of that name as the loaded configuration file has it
WrittenRepository(name) ==
    LET rs == configFile.loaded.repositories
    IN  rs[CHOOSE i \in 1..Len(rs) : rs[i].name = name]

\* C25 (as stated): the flags written in the configuration file are honoured
\* after loading: a webhook finds (GetRepository) only a repository written
\* with enabled true, and calls DeployDirect only for one written with
\* auto_deploy true.
C25_WrittenFlagsHonoured ==
    [][ \A p \in WebProcs :
          /\ (proc[p].pc = "h_repo" /\ proc'[p].pc = "h_ssh") =>
                WrittenRepository(proc'[p].repo.Name).enabled
          /\ proc'[p].calls > proc[p].calls =>
                WrittenRepository(proc[p].repo.Name).auto_deploy ]_vars

\* C26 (as stated): the number of keys in DeploymentService.activeJobs never
\* exceeds settings.max_concurrent of the configuration the service holds.
C26_ActiveWithinMax ==
    Cardinality(activeJobs) <= config.MaxConcurrent

\* the handler p has passed that stage
Passed(p, stage) == \E i \in 1..Len(proc[p].stages) : proc[p].stages[i] = stage

\* C27 (as stated): a GitLab push authenticated by X-Gitlab-Token, for a
\* repository that is configured with auto-deploy and a branch that is
\* configured, goes on to the deployment: it is never answered 'ignored'.
C27_GitLabPushDeployed ==
    \A p \in WebProcs :
        ( /\ config.Secret # EmptyStr
          /\ Passed(p, "signature")
          /\ Passed(p, "parse")
          /\ validateRepository(rsConfig, proc[p].webhook.Name, proc[p].branch).err = EmptyStr
          /\ proc[p].pc = "responded" ) =>
            proc[p].resp.status # "ignored"

\* the step in which p applies the Git safety fixes to a working copy, or
\* clones or re-creates one in InitializeRepository
TrustOrCloneStep(p) ==
    \/ proc[p].pc = "h_safety" /\ proc'[p].pc = "h_deploy"
    \/ proc[p].gpc = "dd_init" /\ proc'[p].gpc # "dd_init"

\* C28 (as stated): the safety fixes and the clone or re-creation of a working
\* copy for one job never run while another job is inside its update and
\* redeploy (between buildMutex.Lock and Unlock).
C28_TrustAndCloneSerialised ==
    [][ \A p \in Procs :
          TrustOrCloneStep(p) =>
              \A q \in Procs \ {p} : ~(InFlight(q) /\ proc[q].gpc \in Inside) ]_vars

\* C29: whatever `down` and the teardown cleanup did, Deploy goes on to the
\* start phase: it never returns without an `up` attempt, its first `up`
\* comes directly after the proactive pattern sweep, which comes directly
\* after the stop phase, and its error is never one of the teardown.
C29_StartAfterSweep ==
    LET t == docker.trace
    IN  /\ docker.pc = "done" => Ups(t) >= 1
        /\ \A i \in 1..Len(t) :
              (IsUp(t[i]) /\ \A j \in 1..(i - 1) : ~IsUp(t[j])) =>
                  /\ i = 3
                  /\ t[2] = "proactive"
                  /\ t[1] \in { "down:ok", "down:failed" }
        /\ docker.err \in { "", "docker compose up failed",
                            "failed to start services after 3 attempts" }

\* C29 witness: `down` failed, and Deploy started the services and returned
\* no error.
C29_Witness ==
    /\ docker.pc = "done"
    /\ docker.trace[1] = "down:failed"
    /\ docker.trace[2] = "proactive"
    /\ docker.trace[3] = "up:ok"
    /\ docker.err = ""

\* what C30 says of one state of the SSH test
SshTestRetries(t) ==
    LET n == Len(t.results)
    IN  /\ n <= 3
        /\ \A i \in 1..(n - 1) : ~t.results[i]
        /\ (n > 0 /\ t.results[n]) => (t.pc \in { "passed", "deploying" } /\ t.err = "")
        /\ Len(t.waits) <= 2
        /\ \A i \in 1..Len(t.waits) : t.waits[i] = i
        /\ Len(t.waits) \in { n - 1, n }
        /\ (n = 3 /\ ~t.results[3]) =>
              /\ t.pc \in { "failed", "returned" }
              /\ t.err = "SSH connection test failed after 3 attempts"
              /\ t.waits = << 1, 2 >>
        /\ t.deployed => (n > 0 /\ t.results[n])
        /\ t.pc = "returned" => (~t.deployed /\ t.stage = "ssh_test" /\ t.err # "")

\* C30: the SSH test makes at most 3 attempts and returns nil at the first
\* that passes; between attempts it waits 1 s, then 2 s, and not after the
\* third; once the context is done it makes no further attempt and returns
\* the cancellation error; after a failed test (three failed attempts or a
\* cancellation) executeDeployment returns without calling DeployDirect.
C30_SshTestRetries ==
    [][ /\ SshTestRetries(sshTest')
        /\ ( /\ CtxDone(sshTest)
             /\ sshTest.pc \in { "head", "wait" }
             /\ sshTest' # sshTest ) =>
               /\ sshTest'.pc = "failed"
               /\ sshTest'.results = sshTest.results
               /\ sshTest'.err \in { "SSH test cancelled",
                                     "SSH test cancelled during retry" } ]_vars

\* C30 witness: three attempts failed with waits of 1 s and 2 s between them,
\* and executeDeployment returned at the stage ssh_test without a deployment.
C30_Witness ==
    /\ sshTest.pc = "returned"
    /\ sshTest.results = << FALSE, FALSE, FALSE >>
    /\ sshTest.waits = << 1, 2 >>
    /\ sshTest.err = "SSH connection test failed after 3 attempts"
    /\ ~sshTest.deployed

\* C31 (as stated): completedJobs + failedJobs never exceeds totalJobs, and
\* with no job active totalJobs = completedJobs + failedJobs.
C31_CountersBalance ==
    /\ completedJobs + failedJobs <= totalJobs
    /\ activeJobs = {} => totalJobs = completedJobs + failedJobs

\* C32: an `up` attempt that failed with an output holding no conflict marker
\* ends the start phase in that step with 'docker compose up failed': no
\* cleanup (the containers are as they were), no wait, no further attempt,
\* at whichever attempt; nothing follows a failed attempt in the trace.
C32_OnlyConflictsRetried ==
    [][ /\ ( /\ docker.pc = "up"
             /\ docker'.pc # "up"
             /\ docker'.pc # "list"
             /\ Unmarked(docker'.output)
             /\ docker'.cause = "other" ) =>
               /\ docker'.pc = "done"
               /\ docker'.err = "docker compose up failed"
               /\ docker'.containers = docker.containers
               /\ docker'.attempt = docker.attempt
               /\ docker'.trace = Append(docker.trace, "up:failed")
        /\ \A i \in 1..Len(docker'.trace) :
               docker'.trace[i] = "up:failed" => i = Len(docker'.trace)
      ]_vars

\* C32 witness: two conflicts were cleaned up and waited out, and the third
\* attempt failed without a marker: Deploy returned that failure.
C32_Witness ==
    /\ docker.pc = "done"
    /\ docker.attempt = 3
    /\ Conflicts(docker.trace) = 2
    /\ docker.cause = "other"
    /\ docker.output # << >>
    /\ docker.trace[Len(docker.trace)] = "up:failed"
    /\ docker.err = "docker compose up failed"

\* C33 (as stated): a webhook naming a repository GetRepository does not find
\* is answered 404 'failed', whatever the names; 200 'disabled' is answered
\* only for a repository that is found and whose AutoDeploy is off.
C33_DisabledOnlyWhenOff ==
    \A p \in WebProcs :
        ( /\ proc[p].pc = "responded"
          /\ Passed(p, "ref")
          /\ ~Passed(p, "repository") ) =>
            LET repo == GetRepository(rsConfig, proc[p].webhook.Name)
            IN  /\ repo = NoRepo =>
                     (proc[p].resp.code = 404 /\ proc[p].resp.status = "failed")
                /\ proc[p].resp.status = "disabled" =>
                     (proc[p].resp.code = 200 /\ repo # NoRepo /\ ~repo.AutoDeploy)

\* C33: a push for the repository disabled-app, which is not configured, is
\* answered 200 'disabled'.
C33_UnconfiguredAnsweredDisabled ==
    \E p \in WebProcs :
        /\ proc[p].pc = "responded"
        /\ proc[p].webhook.Name = DisabledAppName
        /\ GetRepository(rsConfig, DisabledAppName) = NoRepo
        /\ proc[p].resp.code = 200
        /\ proc[p].resp.status = "disabled"


\* C34 (as stated): a process about to invoke dockerService.Deploy has, in its
\* working copy, a compose file that exists and is not empty.
C34_DeployOnlyWithUsableCompose ==
    \A p \in Procs :
        proc[p].gpc = "es_docker" =>
            LET w == StatPath(fs, RepoPath(config.WorkDir, proc[p].repo.Name,
                                           proc[p].branch))
            IN  w.dir /\ w.compose = "ok"


\* C35 (as stated): once Shutdown has been called no DeployDirect call is
\* admitted any more, and after Shutdown returned nil the active-job set is
\* empty.
C35_NoAdmissionAfterShutdown ==
    [][ /\ shutdown.pc # "idle" =>
             \A p \in Procs : proc'[p].admitted => proc[p].admitted
        /\ shutdown'.result = "nil" => activeJobs' = {} ]_vars

\* C35: Shutdown has returned nil and a DeployDirect call holds an active-job key.
C35_ActiveAfterShutdown ==
    /\ shutdown.pc = "done"
    /\ shutdown.result = "nil"
    /\ activeJobs # {}


C36_ResultReturned ==
    /\ dwc.hpc = "returned"
    /\ dwc.ret = "repository update failed"
    /\ dwc.derr = dwc.ret
    /\ dwc.gpc = "exited"
    /\ dwc.elapsed = 1
    /\ Len(dwc.logged) = 2

\* a goroutine inside one of the four operations
Busy(t) == locks.th[t].pc \notin { "idle", "returned" }

\* a step of a goroutine that is inside an operation
Progress ==
    \/ \E t \in Callers : CallerStep(t)
    \/ ReaderStep
    \/ (locks.th[ShutdownThread].pc = "poll" /\ ShutdownRLock)
    \/ ShutdownTimedOut

\* C37: a caller waiting for the build mutex holds neither the active-job lock
\* nor the metrics lock; no goroutine waits for the metrics lock while it
\* holds the active-job lock (the one nested order is metrics, then active
\* jobs); and while a goroutine is inside DeployDirect, GetDeploymentStats,
\* GetActiveJobs or Shutdown, one of them can take a step.
C37_NoDeadlock ==
    /\ \A t \in Callers :
          locks.th[t].pc = "es_lock" =>
              /\ ~Holds(locks.activeJobsMu, t)
              /\ ~Holds(locks.metricsMu, t)
    /\ \A t \in Threads :
          Holds(locks.activeJobsMu, t) =>
              /\ locks.th[t].pc \notin { "m_lock", "m_locking" }
              /\ t \notin locks.metricsMu.q
    /\ (\E t \in Threads : Busy(t)) => ENABLED Progress

\* C37: GetDeploymentStats holds the metrics lock and waits for the active-job
\* lock, which one caller holds for its deferred delete, while the other
\* caller waits for the metrics lock.
C37_Witness ==
    /\ locks.th[StatsThread].pc = "s_active"
    /\ Holds(locks.metricsMu, StatsThread)
    /\ \E t \in Callers, u \in Callers :
          /\ locks.activeJobsMu.w = t
          /\ locks.th[t].pc = "dd_delete"
          /\ locks.th[u].pc = "m_locking"
          /\ ~CanLockRW(locks.metricsMu, u)

\* C38 (as stated): every admitted call of DeployDirect comes to hold the build
\* mutex and returns, the build mutex and its key released.
C38_AdmittedAcquiresAndReturns ==
    \A t \in Callers :
        (locks.th[t].admitted /\ locks.th[t].pc # "returned") ~>
            ( /\ locks.th[t].acquired
              /\ locks.th[t].pc = "returned"
              /\ locks.buildMutex # t
              /\ ~IsActive(locks.activeJobs, locks.th[t].key) )

\* C38: every admitted call of DeployDirect returns, its key deleted and the
\* build mutex not held by it, and it has held the build mutex unless its
\* auto-initialization failed; a call waiting for the build mutex gets it.
C38_AdmittedReturns ==
    /\ \A t \in Callers :
          (locks.th[t].admitted /\ locks.th[t].pc # "returned") ~>
              ( /\ locks.th[t].pc = "returned"
                /\ locks.buildMutex # t
                /\ ~IsActive(locks.activeJobs, locks.th[t].key)
                /\ locks.th[t].acquired \/ locks.th[t].err = "auto-initialization failed" )
    /\ \A t \in Callers :
          (locks.th[t].pc = "es_lock") ~> (locks.buildMutex = t)

\* C38: a call waits for the build mutex the other caller holds, its own key
\* and the other's both active.
C38_Witness ==
    \E t \in Callers, u \in Callers :
        /\ locks.th[t].pc = "es_lock"
        /\ locks.buildMutex = u
        /\ u # t
        /\ locks.activeJobs = LockKeys


\* C39: a step that removes a working copy's directory is the cleanup step of an
\* InitializeRepository whose repository passed ValidateRepository and whose
\* branch is configured; a call that returns the validation error or the
\* branch error does so from one of the two checks, the working copies as
\* they were.
C39_CleanupAfterChecks ==
    [][ /\ (\E path \in DOMAIN fs : fs[path].dir /\ fs'[path] # fs[path]) =>
              \E p \in CliProcs :
                  /\ proc[p].gpc \in { "ir_cleanup", "ir_setup" }
                  /\ ValidateRepository(proc[p].repo)
                  /\ IsBranchConfigured(proc[p].repo, proc[p].branch)
        /\ \A p \in CliProcs :
              ( /\ proc[p].gpc \in { "ir_validate", "ir_branch" }
                /\ proc'[p] # proc[p] ) =>
                  /\ fs' = fs
                  /\ ( /\ proc[p].gpc = "ir_validate"
                       /\ ~ValidateRepository(proc[p].repo) ) =>
                         /\ proc'[p].gpc = "ir_returned"
                         /\ proc'[p].derr = "repository validation failed"
                  /\ ( /\ proc[p].gpc = "ir_branch"
                       /\ ~IsBranchConfigured(proc[p].repo, proc[p].branch) ) =>
                         /\ proc'[p].gpc = "ir_returned"
                         /\ proc'[p].derr = "branch is not configured" ]_vars

\* C39: InitializeRepository was called for a branch the repository does not
\* list, over an existing working copy, and returned its error; the working
\* copy is still there.
C39_Witness ==
    \E p \in CliProcs :
        /\ proc[p].gpc = "ir_returned"
        /\ proc[p].derr = "branch is not configured"
        /\ ValidateRepository(proc[p].repo)
        /\ StatPath(fs, getRepositoryPath(rsConfig, proc[p].repo.Name, proc[p].branch))
              = Cloned("ok")
====
